---- MODULE Spec2Model ----
(***************************************************************************)
(* AniVish media player: the Video Manager's playback state machine and    *)
(* event bus (core/videomanager.py), the playback engine adapter's volume, *)
(* mute and relative-seek arithmetic (core/anivish_backend.py) and the     *)
(* configuration store's recent-files list (core/config_loader.py).        *)
(*                                                                         *)
(* Two threads run the Video Manager's code: "main" issues control calls,  *)
(* "engine" is the native engine's thread that delivers notifications.     *)
(* Every handler is split at its reads and writes of the shared fields     *)
(* _state and _last_error.  Under sched = "serial" a call starts only when *)
(* no other call is running; under sched = "interleaved" the two threads   *)
(* run freely.                                                             *)
(***************************************************************************)
EXTENDS Integers, Sequences, FiniteSets, TLC

VARIABLES
    state,               \* VideoManager._state
    current_source,      \* VideoManager._current_source (None or one source)
    media_type,          \* VideoManager._media_type
    last_error,          \* VideoManager._last_error (None or one message)
    video_size,          \* VideoManager._video_width, _video_height
    player_media,        \* the media the engine's player holds
    released,            \* the player and the engine instance were released
    player_volume,       \* the engine's volume
    muted,               \* AniVishBackend._muted
    pre_mute_volume,     \* AniVishBackend._pre_mute_volume
    player_time,         \* the engine's current time (ms, -1 unavailable)
    player_length,       \* the engine's media length (ms, -1 unavailable)
    recent_files,        \* AniVishConfig.recent_files
    max_recent_files,    \* AniVishConfig.max_recent_files
    skip_interval_short, \* PlaybackConfig.skip_interval_short
    dirty,               \* ConfigLoader._dirty
    pc,                  \* per thread: the statement it is at
    loc,                 \* per thread: locals of load and _set_state
    sched,               \* "serial" or "interleaved"
    op,                  \* observer: per thread, the call it runs or ran last
    last2,               \* observer: the last two finished calls, in brief
    delivered,           \* observer: the new state of the last on_state_changed
    audio_obs,           \* observer: progress of set_volume; mute; unmute
    seek_obs,            \* observer: the last relative seek
    recent_obs,          \* observer: the last change of recent_files
    sections,            \* AniVishConfig.playback, audio, subtitle, ui, logging
    config_file,         \* the configuration file at ConfigLoader._config_path
    mutated,             \* observer: a mutation was made since the last save
    store_obs,           \* observer: the last call on the configuration store
    callbacks,           \* VideoManager._callbacks
    emit_obs,            \* observer: the last on, off or emission
    size_obs,            \* observer: the sizes reported and those emitted
    url_obs,             \* observer: the last source validated
    keybindings,         \* KeybindingManager.keybindings
    keybinding_file,     \* the keybinding file
    key_obs,             \* observer: the last call on the keybindings
    engine_events,       \* the engine's notifications not yet delivered
    control_bar,         \* ControlBar: update_timer, seek_slider; last seek
    settings_dialog,     \* SettingsDialog: its fields; observer of a session
    recent_files_dialog, \* RecentFilesDialog: built, shown, the items of its list
    open_url_dialog,     \* OpenURLDialog: the field, its styling, the last submit
    main_window,         \* AniVishMainWindow: window state, geometry; the last drag
    root_logger,         \* AniVishLogger: level, handlers; the last record logged
    console              \* the console player's loop: the last command handled

vars == <<state, current_source, media_type, last_error, video_size,
          player_media, released, player_volume, muted, pre_mute_volume,
          player_time, player_length, recent_files, max_recent_files,
          skip_interval_short, dirty, pc, loc, sched,
          op, last2, delivered, audio_obs, seek_obs, recent_obs,
          sections, config_file, mutated, store_obs, callbacks, emit_obs,
          size_obs, url_obs, keybindings, keybinding_file, key_obs,
          engine_events, control_bar, settings_dialog,
          recent_files_dialog, open_url_dialog, main_window, root_logger, console>>

vmVars == <<state, current_source, media_type, last_error, video_size,
            player_media, released, pc, loc, op, last2, delivered>>
audioVars == <<player_volume, muted, pre_mute_volume, audio_obs>>
seekVars == <<player_time, player_length, skip_interval_short, seek_obs>>
configVars == <<recent_files, max_recent_files, dirty, recent_obs>>
storeVars == <<sections, config_file, mutated, store_obs>>
eventVars == <<callbacks, emit_obs>>
keyVars == <<keybindings, keybinding_file, key_obs>>
shellVars == <<recent_files_dialog, open_url_dialog, main_window, root_logger, console>>
uiVars == <<engine_events, control_bar, settings_dialog, shellVars>>
restVars == <<eventVars, size_obs, url_obs, keyVars, uiVars>>
extVars == <<storeVars, restVars>>

Threads == {"main", "engine"}

PlaybackState ==
    {"IDLE", "LOADING", "PLAYING", "PAUSED", "STOPPED", "BUFFERING", "ENDED", "ERROR"}

MediaType == {"LOCAL_FILE", "HTTP_URL", "STREAM_HLS", "STREAM_DASH", "UNKNOWN"}

\* Python's None and a present value, for the Optional fields
None == <<>>
Some(x) == <<x>>

SUPPORTED_VIDEO_EXT ==
    {".mp4", ".mkv", ".avi", ".mov", ".wmv", ".flv", ".webm", ".m4v", ".mpeg", ".mpg", ".3gp"}
SUPPORTED_AUDIO_EXT == {".mp3", ".wav", ".flac", ".aac", ".ogg", ".wma", ".m4a"}

(***************************************************************************)
(* Source strings.  A string is a sequence of tokens: a blank, a double    *)
(* quote, a single quote, or a name.  The file system and the URL grammar  *)
(* are given for the names below; a string that is not exactly one name    *)
(* is no existing path and has no scheme.                                  *)
(***************************************************************************)
Blank == " "
DQuote == "\""
SQuote == "'"

Names == {"movie.mp4", "movie.xyz", "missing.mp4",
          "https://example.com/stream.m3u8", "http://[::1"}

Name(s) == IF Len(s) = 1 THEN s[1] ELSE ""

\* os.path.exists, os.path.isfile, os.path.splitext(...)[1].lower(), open(...).read
path_exists(s) == Name(s) \in {"movie.mp4", "movie.xyz"}
path_isfile(s) == Name(s) \in {"movie.mp4", "movie.xyz"}
path_ext(s) ==
    CASE Name(s) \in {"movie.mp4", "missing.mp4"} -> ".mp4"
      [] Name(s) = "movie.xyz" -> ".xyz"
      [] OTHER -> ""
path_read(s) == "ok"

\* A source written in several tokens is a URL in its parts: a scheme word,
\* ":", "//", the parts of the authority (user, host, port), the segments of
\* the path, the extension of its last segment, the query.
SchemeWords == {"http", "https", "rtsp", "rtmp", "mms", "file", "ftp", "HTTP"}
Colon == ":"
Slashes == "//"
UserTokens == {"user@"}
HostTokens == {"example.com", "EXAMPLE.com"}
PortTokens == {":8080"}
SegmentTokens == {"/a"}
ExtTokens == {".m3u8", ".m3u", ".mpd", ".mp4", ".M3U8"}
QueryTokens == {"?x=1", "?f=b.m3u8"}
Tokens ==
    SchemeWords \cup {Colon, Slashes} \cup UserTokens \cup HostTokens \cup PortTokens
    \cup SegmentTokens \cup ExtTokens \cup QueryTokens

\* str.lower() of a token
lower(tok) ==
    CASE tok = "HTTP" -> "http"
      [] tok = ".M3U8" -> ".m3u8"
      [] tok = "EXAMPLE.com" -> "example.com"
      [] OTHER -> tok

\* the longest prefix of s whose tokens are in the set
RECURSIVE prefix_in(_, _)
prefix_in(s, set) ==
    IF s # <<>> /\ Head(s) \in set THEN <<Head(s)>> \o prefix_in(Tail(s), set) ELSE <<>>

suffix_from(s, n) == SubSeq(s, n + 1, Len(s))

\* urlsplit: a scheme is the text before the first ':' when it is not empty
\* and made of scheme characters; the netloc is what follows a leading '//'
\* up to the first '/', '?' or '#'; the path ends at the '?'
parsed_scheme(s) ==
    IF Len(s) >= 2 /\ s[1] \in SchemeWords /\ s[2] = Colon THEN lower(s[1]) ELSE ""
after_scheme(s) == IF parsed_scheme(s) # "" THEN suffix_from(s, 2) ELSE s
parsed_netloc(s) ==
    LET rest == after_scheme(s)
    IN IF rest # <<>> /\ rest[1] = Slashes
       THEN prefix_in(Tail(rest), Tokens \ (SegmentTokens \cup QueryTokens \cup {Slashes}))
       ELSE <<>>
parsed_path(s) ==
    LET rest == after_scheme(s)
        tail == IF rest # <<>> /\ rest[1] = Slashes
                THEN suffix_from(rest, 1 + Len(parsed_netloc(s))) ELSE rest
    IN prefix_in(tail, Tokens \ QueryTokens)

\* os.path.splitext(path)[1].lower()
splitext_lower(path) ==
    IF Len(path) >= 2 /\ path[Len(path)] \in ExtTokens /\ path[Len(path) - 1] \notin {Slashes}
    THEN lower(path[Len(path)]) ELSE ""

\* urlparse(source): scheme, netloc, extension of the path; '://' in source
url_raises(s) == Name(s) = "http://[::1"
url_scheme(s) ==
    IF Len(s) > 1 THEN parsed_scheme(s)
    ELSE IF Name(s) = "https://example.com/stream.m3u8" THEN "https" ELSE ""
url_netloc(s) ==
    IF Len(s) > 1 THEN parsed_netloc(s)
    ELSE IF Name(s) = "https://example.com/stream.m3u8" THEN <<"example.com">> ELSE <<>>
url_path_ext(s) ==
    IF Len(s) > 1 THEN splitext_lower(parsed_path(s))
    ELSE IF Name(s) = "https://example.com/stream.m3u8" THEN ".m3u8" ELSE path_ext(s)
has_scheme_sep(s) ==
    \/ Name(s) \in {"https://example.com/stream.m3u8", "http://[::1"}
    \/ \E i \in 1..(Len(s) - 1) : s[i] = Colon /\ s[i + 1] = Slashes

\* str.strip(chars): drop the leading and the trailing tokens that are in chars
RECURSIVE lstrip(_, _)
lstrip(s, chars) ==
    IF s # <<>> /\ Head(s) \in chars THEN lstrip(Tail(s), chars) ELSE s
RECURSIVE rstrip(_, _)
rstrip(s, chars) ==
    IF s # <<>> /\ s[Len(s)] \in chars THEN rstrip(SubSeq(s, 1, Len(s) - 1), chars) ELSE s
strip(s, chars) == rstrip(lstrip(s, chars), chars)

\* load, line 359: source.strip().strip('"').strip("'")
clean_source(raw) == strip(strip(strip(raw, {Blank}), {DQuote}), {SQuote})

\* what the callers pass to load(): the source and the validate flag
RawSources ==
    {<<n>> : n \in Names}
    \cup {<<Blank, DQuote, "movie.mp4", DQuote, Blank>>,
          <<SQuote, "movie.mp4", SQuote>>, <<Blank, Blank>>}

\* the loads tried while the engine's thread runs: one valid, one invalid
InterleavedLoadInputs == {<<(<<"movie.mp4">>), TRUE>>, <<(<<"movie.xyz">>), TRUE>>}

LoadInputs ==
    {<<raw, TRUE>> : raw \in RawSources}
    \cup {<<raw, FALSE>> : raw \in {<<"movie.mp4">>, <<"missing.mp4">>, <<"http://[::1">>}}

detect_media_type(source) ==
    IF url_scheme(source) \in {"http", "https", "rtsp", "rtmp", "mms"}
    THEN CASE url_path_ext(source) \in {".m3u8", ".m3u"} -> "STREAM_HLS"
           [] url_path_ext(source) = ".mpd" -> "STREAM_DASH"
           [] OTHER -> "HTTP_URL"
    ELSE IF path_exists(source) THEN "LOCAL_FILE" ELSE "UNKNOWN"

\* as validate_local_file, without the check of the extension
validate_local_file_any_ext(path) ==
    IF ~path_exists(path) THEN Some("File not found")
    ELSE IF ~path_isfile(path) THEN Some("Not a file")
    ELSE IF path_read(path) = "PermissionError" THEN Some("Permission denied")
    ELSE IF path_read(path) = "IOError" THEN Some("Cannot read file")
    ELSE None

\* the validators return None when the source is valid, else the message
validate_local_file(path) ==
    IF ~path_exists(path) THEN Some("File not found")
    ELSE IF ~path_isfile(path) THEN Some("Not a file")
    ELSE IF path_ext(path) # "" /\ path_ext(path) \notin (SUPPORTED_VIDEO_EXT \cup SUPPORTED_AUDIO_EXT)
         THEN Some("Unsupported format")
    ELSE IF path_read(path) = "PermissionError" THEN Some("Permission denied")
    ELSE IF path_read(path) = "IOError" THEN Some("Cannot read file")
    ELSE None

validate_url(url) ==
    IF url_scheme(url) = "" THEN Some("URL missing scheme (http/https)")
    ELSE IF url_scheme(url) \notin {"http", "https", "rtsp", "rtmp", "mms", "file"}
         THEN Some("Unsupported URL scheme")
    ELSE IF url_netloc(url) = <<>> /\ url_scheme(url) # "file" THEN Some("URL missing host")
    ELSE None

validate_source(source) ==
    LET mt == detect_media_type(source) IN
    IF mt = "LOCAL_FILE" THEN validate_local_file(source)
    ELSE IF mt \in {"HTTP_URL", "STREAM_HLS", "STREAM_DASH"} THEN validate_url(source)
    ELSE IF has_scheme_sep(source) THEN validate_url(source)
    ELSE Some("Invalid or unrecognized media source")

\* the URL-shaped sources validated in the URL rule's specification: with
\* and without a scheme, '//', user, host, port, path, extension and query
UrlHeads == {<<w, Colon>> : w \in SchemeWords} \cup {<<Colon>>, <<>>}
UrlSlashes == {<<Slashes>>, <<>>}
UrlAuthorities ==
    {<<>>, <<"example.com">>, <<"EXAMPLE.com">>, <<":8080">>, <<"user@">>,
     <<"user@", "example.com", ":8080">>}
UrlPaths ==
    {<<>>, <<"?x=1">>, <<"/a">>, <<"/a", "?f=b.m3u8">>, <<"/a", ".m3u8", "?x=1">>}
    \cup {<<"/a", e>> : e \in ExtTokens}
UrlSources ==
    {h \o sl \o au \o pa : h \in UrlHeads, sl \in UrlSlashes,
                            au \in UrlAuthorities, pa \in UrlPaths}
    \ {<<>>, <<Slashes>>}

\* the sizes the engine reports for the video output
VideoSizes == {<<0, 0>>, <<640, 360>>}


(***************************************************************************)
(* Threads, calls and the observers of the event bus                       *)
(***************************************************************************)
Idle(t) == pc[t] = "idle"

\* a call may start on an idle thread; under "serial" only when no call runs
CanBegin(t) == Idle(t) /\ (sched = "serial" => \A u \in Threads : Idle(u))

NoCall ==
    [name |-> "none", raw |-> <<>>, preSource |-> None, validate |-> FALSE,
     calls |-> <<>>, emits |-> <<>>, set_media |-> 0, result |-> "none"]

\* the observer's record of a call that starts now
NewCall(name) == [NoCall EXCEPT !.name = name, !.result = "running"]

\* the observer's record of a load that starts now
NewLoad(raw, validate) ==
    [NewCall("load") EXCEPT !.raw = raw, !.validate = validate,
                            !.preSource = current_source]

Event(name, args) == [name |-> name, args |-> args]

IsStateChanged(e) == e.name = "on_state_changed"

KeepLast2(s) == IF Len(s) > 2 THEN Tail(s) ELSE s

\* a finished call in brief: was it a Paused notification, and if so the
\* number of on_state_changed it emitted
Summary(o) ==
    IF o.name = "on_vlc_paused"
    THEN [paused |-> TRUE, nsc |-> Len(SelectSeq(o.emits, IsStateChanged))]
    ELSE [paused |-> FALSE, nsc |-> 0]

\* _emit: the subscribers of the event are called with the arguments
emit(o, name, args) == [o EXCEPT !.emits = Append(@, Event(name, args))]

\* op with thread t's record replaced and the record of the call that
\* finished on the other thread dropped; records are kept for serial runs
Records(t, o) ==
    IF sched = "serial" THEN [u \in Threads |-> IF u = t THEN o ELSE NoCall] ELSE op

InitLocals == [new |-> "IDLE", old |-> "IDLE", ret |-> "return", source |-> <<>>]

\* the thread's call ends with the given outcome
Finish(t, o, result) ==
    /\ pc' = [pc EXCEPT ![t] = "idle"]
    /\ loc' = [loc EXCEPT ![t] = InitLocals]
    /\ op' = Records(t, [o EXCEPT !.result = result])
    /\ last2' = KeepLast2(Append(last2, Summary(o)))

\* the thread calls _set_state(new) and continues at ret
CallSetState(t, l, new, ret) ==
    /\ pc' = [pc EXCEPT ![t] = "set_state"]
    /\ loc' = [loc EXCEPT ![t] = [l EXCEPT !.new = new, !.ret = ret]]

(***************************************************************************)
(* VideoManager._set_state, one step per read or write of _state           *)
(***************************************************************************)
\* as set_state_check, without the comparison: every call goes on to emit
set_state_check_always(t) ==
    /\ pc[t] = "set_state"
    /\ op' = Records(t, [op[t] EXCEPT !.calls = Append(@, <<state, loc[t].new>>)])
    /\ pc' = [pc EXCEPT ![t] = "set_state_old"]
    /\ UNCHANGED <<state, current_source, media_type, last_error, video_size,
                   player_media, released, loc, last2, delivered>>
    /\ UNCHANGED <<audioVars, seekVars, configVars, sched, extVars>>

\* line 167: if self._state != new_state
set_state_check(t) ==
    /\ pc[t] = "set_state"
    /\ op' = Records(t, [op[t] EXCEPT !.calls = Append(@, <<state, loc[t].new>>)])
    /\ pc' = [pc EXCEPT ![t] = IF state # loc[t].new THEN "set_state_old" ELSE loc[t].ret]
    /\ UNCHANGED <<state, current_source, media_type, last_error, video_size,
                   player_media, released, loc, last2, delivered>>
    /\ UNCHANGED <<audioVars, seekVars, configVars, sched, extVars>>

\* line 168: old_state = self._state
set_state_old(t) ==
    /\ pc[t] = "set_state_old"
    /\ loc' = [loc EXCEPT ![t].old = state]
    /\ pc' = [pc EXCEPT ![t] = "set_state_write"]
    /\ UNCHANGED <<state, current_source, media_type, last_error, video_size,
                   player_media, released, op, last2, delivered>>
    /\ UNCHANGED <<audioVars, seekVars, configVars, sched, extVars>>

\* line 169: self._state = new_state
set_state_write(t) ==
    /\ pc[t] = "set_state_write"
    /\ state' = loc[t].new
    /\ pc' = [pc EXCEPT ![t] = "set_state_emit"]
    /\ UNCHANGED <<current_source, media_type, last_error, video_size,
                   player_media, released, loc, op, last2, delivered>>
    /\ UNCHANGED <<audioVars, seekVars, configVars, sched, extVars>>

\* line 171: self._emit('on_state_changed', old_state, new_state)
set_state_emit(t) ==
    /\ pc[t] = "set_state_emit"
    /\ op' = Records(t, emit(op[t], "on_state_changed", <<loc[t].old, loc[t].new>>))
    /\ delivered' = Some(loc[t].new)
    /\ pc' = [pc EXCEPT ![t] = loc[t].ret]
    /\ UNCHANGED <<state, current_source, media_type, last_error, video_size,
                   player_media, released, loc, last2>>
    /\ UNCHANGED <<audioVars, seekVars, configVars, sched, extVars>>

\* the call returns to its caller
call_return(t) ==
    /\ pc[t] = "return"
    /\ Finish(t, op[t], "returned")
    /\ UNCHANGED <<state, current_source, media_type, last_error, video_size,
                   player_media, released, delivered>>
    /\ UNCHANGED <<audioVars, seekVars, configVars, sched, extVars>>

(***************************************************************************)
(* ConfigLoader: the recent-files list and the dirty flag                  *)
(***************************************************************************)
\* list.remove(path): drop the first occurrence
RECURSIVE list_remove(_, _)
list_remove(s, x) ==
    IF s = <<>> THEN <<>>
    ELSE IF Head(s) = x THEN Tail(s)
    ELSE <<Head(s)>> \o list_remove(Tail(s), x)

list_contains(s, x) == \E i \in 1..Len(s) : s[i] = x

\* s[:n] for n >= 0
list_prefix(s, n) == SubSeq(s, 1, IF n < Len(s) THEN n ELSE Len(s))

\* as add_recent_file, without removing the path that is already present
add_recent_file_keeps_old(files, path, cap) == list_prefix(<<path>> \o files, cap)

\* ConfigLoader.add_recent_file: the new value of recent_files
add_recent_file(files, path, cap) ==
    LET removed == IF list_contains(files, path) THEN list_remove(files, path) ELSE files
        inserted == <<path>> \o removed
    IN list_prefix(inserted, cap)

\* ConfigLoader.save_if_dirty: _save clears the flag unless the write fails
save_if_dirty(isDirty, written) == IF isDirty /\ written THEN FALSE ELSE isDirty


(***************************************************************************)
(* VideoManager: control calls on the main thread                          *)
(***************************************************************************)
\* load, lines 358-373: clean the source, validate, classify, enter LOADING
load(raw, validate) ==
    /\ CanBegin("main")
    /\ ~released
    /\ LET source == clean_source(raw)
           o == NewLoad(raw, validate)
           l == [loc["main"] EXCEPT !.source = source]
       IN IF url_raises(source)
          THEN /\ Finish("main", o, "ValueError")
               /\ UNCHANGED <<last_error, media_type>>
          ELSE LET error == IF validate THEN validate_source(source) ELSE None
               IN IF error # None
                  THEN /\ last_error' = error
                       /\ CallSetState("main", l, "ERROR", "load_invalid")
                       /\ op' = Records("main", o)
                       /\ UNCHANGED <<media_type, last2>>
                  ELSE /\ media_type' = detect_media_type(source)
                       /\ CallSetState("main", l, "LOADING", "load_set_media")
                       /\ op' = Records("main", o)
                       /\ UNCHANGED <<last_error, last2>>
    /\ UNCHANGED <<state, current_source, video_size, player_media, released, delivered>>
    /\ UNCHANGED <<audioVars, seekVars, configVars, sched, extVars>>

\* load, line 369: raise InvalidSourceError(error)
load_invalid ==
    /\ pc["main"] = "load_invalid"
    /\ Finish("main", op["main"], "InvalidSourceError")
    /\ UNCHANGED <<state, current_source, media_type, last_error, video_size,
                   player_media, released, delivered>>
    /\ UNCHANGED <<audioVars, seekVars, configVars, sched, extVars>>

\* as load_set_media, keeping the last error of an earlier failure
load_set_media_keeps_error ==
    /\ pc["main"] = "load_set_media"
    /\ op' = Records("main", [op["main"] EXCEPT !.set_media = @ + 1])
    /\ \E ok \in BOOLEAN :
          IF ok
          THEN /\ player_media' = Some(loc["main"].source)
               /\ current_source' = Some(loc["main"].source)
               /\ UNCHANGED last_error
               /\ CallSetState("main", loc["main"], "STOPPED", "load_loaded")
          ELSE /\ last_error' = Some("Failed to load media")
               /\ CallSetState("main", loc["main"], "ERROR", "load_failed")
               /\ UNCHANGED <<player_media, current_source>>
    /\ UNCHANGED <<state, media_type, video_size, released, last2, delivered>>
    /\ UNCHANGED <<audioVars, seekVars, configVars, sched, extVars>>

\* as load_set_media, raising on a failed set_media without entering ERROR
load_set_media_stays_loading ==
    /\ pc["main"] = "load_set_media"
    /\ op' = Records("main", [op["main"] EXCEPT !.set_media = @ + 1])
    /\ \E ok \in BOOLEAN :
          IF ok
          THEN /\ player_media' = Some(loc["main"].source)
               /\ current_source' = Some(loc["main"].source)
               /\ last_error' = None
               /\ CallSetState("main", loc["main"], "STOPPED", "load_loaded")
          ELSE /\ last_error' = Some("Failed to load media")
               /\ pc' = [pc EXCEPT !["main"] = "load_failed"]
               /\ UNCHANGED <<player_media, current_source, loc>>
    /\ UNCHANGED <<state, media_type, video_size, released, last2, delivered>>
    /\ UNCHANGED <<audioVars, seekVars, configVars, sched, extVars>>

\* load, lines 377-385: the backend's set_media, then the source is recorded
load_set_media ==
    /\ pc["main"] = "load_set_media"
    /\ op' = Records("main", [op["main"] EXCEPT !.set_media = @ + 1])
    /\ \E ok \in BOOLEAN :
          IF ok
          THEN /\ player_media' = Some(loc["main"].source)
               /\ current_source' = Some(loc["main"].source)
               /\ last_error' = None
               /\ CallSetState("main", loc["main"], "STOPPED", "load_loaded")
          ELSE /\ last_error' = Some("Failed to load media")
               /\ CallSetState("main", loc["main"], "ERROR", "load_failed")
               /\ UNCHANGED <<player_media, current_source>>
    /\ UNCHANGED <<state, media_type, video_size, released, last2, delivered>>
    /\ UNCHANGED <<audioVars, seekVars, configVars, sched, extVars>>

\* load, line 381: raise MediaLoadError
load_failed ==
    /\ pc["main"] = "load_failed"
    /\ Finish("main", op["main"], "MediaLoadError")
    /\ UNCHANGED <<state, current_source, media_type, last_error, video_size,
                   player_media, released, delivered>>
    /\ UNCHANGED <<audioVars, seekVars, configVars, sched, extVars>>

\* as load_loaded, recording the source whatever its type
load_loaded_any_type ==
    /\ pc["main"] = "load_loaded"
    /\ recent_files' = add_recent_file(recent_files, loc["main"].source, max_recent_files)
    /\ recent_obs' = [path |-> Some(loc["main"].source), before |-> recent_files]
    /\ \E written \in BOOLEAN : dirty' = save_if_dirty(TRUE, written)
    /\ Finish("main",
              emit(op["main"], "on_media_loaded", <<loc["main"].source, media_type>>),
              "returned")
    /\ UNCHANGED <<state, current_source, media_type, last_error, video_size,
                   player_media, released, delivered>>
    /\ UNCHANGED <<audioVars, seekVars, max_recent_files, sched, extVars>>

\* load, lines 387-394: recent files for a local file, then on_media_loaded
load_loaded ==
    /\ pc["main"] = "load_loaded"
    /\ IF media_type = "LOCAL_FILE"
       THEN /\ recent_files' = add_recent_file(recent_files, loc["main"].source, max_recent_files)
            /\ recent_obs' = [path |-> Some(loc["main"].source), before |-> recent_files]
            /\ \E written \in BOOLEAN : dirty' = save_if_dirty(TRUE, written)
       ELSE UNCHANGED <<recent_files, recent_obs, dirty>>
    /\ Finish("main",
              emit(op["main"], "on_media_loaded", <<loc["main"].source, media_type>>),
              "returned")
    /\ UNCHANGED <<state, current_source, media_type, last_error, video_size,
                   player_media, released, delivered>>
    /\ UNCHANGED <<audioVars, seekVars, max_recent_files, sched, extVars>>

\* play: asks the engine to play when a source is loaded
play ==
    /\ CanBegin("main")
    /\ ~released
    /\ Finish("main", NewCall("play"), "returned")
    /\ UNCHANGED <<state, current_source, media_type, last_error, video_size,
                   player_media, released, delivered>>
    /\ UNCHANGED <<audioVars, seekVars, configVars, sched, extVars>>

\* pause: asks the engine to pause
pause ==
    /\ CanBegin("main")
    /\ ~released
    /\ Finish("main", NewCall("pause"), "returned")
    /\ UNCHANGED <<state, current_source, media_type, last_error, video_size,
                   player_media, released, delivered>>
    /\ UNCHANGED <<audioVars, seekVars, configVars, sched, extVars>>

\* stop: asks the engine to stop
stop ==
    /\ CanBegin("main")
    /\ ~released
    /\ Finish("main", NewCall("stop"), "returned")
    /\ UNCHANGED <<state, current_source, media_type, last_error, video_size,
                   player_media, released, delivered>>
    /\ UNCHANGED <<audioVars, seekVars, configVars, sched, extVars>>

\* clear_error, line 722: self._last_error = None
clear_error ==
    /\ CanBegin("main")
    /\ last_error' = None
    /\ pc' = [pc EXCEPT !["main"] = "clear_error_check"]
    /\ op' = Records("main", NewCall("clear_error"))
    /\ UNCHANGED <<state, current_source, media_type, video_size,
                   player_media, released, loc, last2, delivered>>
    /\ UNCHANGED <<audioVars, seekVars, configVars, sched, extVars>>

\* as clear_error_check, going to STOPPED instead of IDLE
clear_error_check_stopped ==
    /\ pc["main"] = "clear_error_check"
    /\ IF state = "ERROR"
       THEN /\ CallSetState("main", loc["main"], "STOPPED", "return")
            /\ UNCHANGED <<op, last2>>
       ELSE Finish("main", op["main"], "returned")
    /\ UNCHANGED <<state, current_source, media_type, last_error, video_size,
                   player_media, released, delivered>>
    /\ UNCHANGED <<audioVars, seekVars, configVars, sched, extVars>>

\* clear_error, lines 723-724: if self._state == ERROR: self._set_state(IDLE)
clear_error_check ==
    /\ pc["main"] = "clear_error_check"
    /\ IF state = "ERROR"
       THEN /\ CallSetState("main", loc["main"], "IDLE", "return")
            /\ UNCHANGED <<op, last2>>
       ELSE Finish("main", op["main"], "returned")
    /\ UNCHANGED <<state, current_source, media_type, last_error, video_size,
                   player_media, released, delivered>>
    /\ UNCHANGED <<audioVars, seekVars, configVars, sched, extVars>>

\* release, lines 749-753: stop, save the configuration, release the backend
release ==
    /\ CanBegin("main")
    /\ ~released
    /\ \E written \in BOOLEAN : dirty' = save_if_dirty(dirty, written)
    /\ released' = TRUE
    /\ player_media' = None
    /\ current_source' = None
    /\ op' = Records("main", NewCall("release"))
    /\ CallSetState("main", loc["main"], "IDLE", "return")
    /\ UNCHANGED <<state, media_type, last_error, video_size, last2, delivered>>
    /\ UNCHANGED <<audioVars, seekVars, recent_files, max_recent_files, recent_obs, sched, extVars>>

\* what a call on a player that was released already can do: the engine's
\* player object is freed by player.release(), and stop() and release() of
\* the backend then use the freed object
FreedPlayerOutcomes == {"returns", "crashes"}

\* release, lines 749-753, on a manager that was released before
release_again ==
    /\ CanBegin("main")
    /\ released
    /\ \E outcome \in FreedPlayerOutcomes :
          IF outcome = "crashes"
          THEN /\ pc' = [pc EXCEPT !["main"] = "crashed"]
               /\ op' = Records("main", [NewCall("release") EXCEPT !.result = "crashed"])
               /\ UNCHANGED <<dirty, current_source, player_media, loc>>
          ELSE /\ \E written \in BOOLEAN : dirty' = save_if_dirty(dirty, written)
               /\ player_media' = None
               /\ current_source' = None
               /\ op' = Records("main", NewCall("release"))
               /\ CallSetState("main", loc["main"], "IDLE", "return")
    /\ UNCHANGED <<state, media_type, last_error, video_size, released, last2, delivered>>
    /\ UNCHANGED <<audioVars, seekVars, recent_files, max_recent_files, recent_obs, sched, extVars>>

(***************************************************************************)
(* VideoManager: the engine's notifications, on the engine's thread        *)
(***************************************************************************)
NotifyFrame ==
    /\ UNCHANGED <<state, current_source, media_type, last_error, video_size,
                   player_media, released, last2, delivered>>
    /\ UNCHANGED <<audioVars, seekVars, configVars, sched, extVars>>

\* as update_video_size, without the test for positive dimensions
update_video_size_any(size) ==
    IF size # video_size THEN size ELSE video_size

\* _update_video_size with the size the engine reports: the new cache
update_video_size(size) ==
    IF size[1] > 0 /\ size[2] > 0 /\ size # video_size THEN size ELSE video_size

\* _update_video_size: the call record after the possible emission
update_video_size_emit(o, size) ==
    IF update_video_size(size) # video_size
    THEN emit(o, "on_video_size_changed", size)
    ELSE o

\* the sizes the engine reports in the video size's specification
SizeReports == {<<0, 0>>, <<1920, 1080>>, <<1280, 720>>, <<0, 720>>}

\* the longest sequence of reports explored
MaxReports == 4

IsSizeChanged(e) == e.name = "on_video_size_changed"

\* observer: the reports so far and the sizes of the on_video_size_changed
\* events emitted for them
Reported(size) ==
    LET events == SelectSeq(update_video_size_emit(NewCall("report"), size).emits,
                            IsSizeChanged)
    IN [reports |-> Append(size_obs.reports, size),
        emitted |-> size_obs.emitted \o [i \in 1..Len(events) |-> events[i].args]]

SizeFrame ==
    UNCHANGED <<audioVars, seekVars, configVars, sched, storeVars, eventVars,
                url_obs, keyVars, uiVars>>

\* _on_vlc_playing, line 176
on_vlc_playing ==
    /\ CanBegin("engine")
    /\ ~released
    /\ op' = Records("engine", NewCall("on_vlc_playing"))
    /\ CallSetState("engine", loc["engine"], "PLAYING", "playing_emit")
    /\ NotifyFrame

\* _on_vlc_playing, lines 177-178
on_vlc_playing_emit_size(size) ==
    /\ pc["engine"] = "playing_emit"
    /\ video_size' = update_video_size(size)
    /\ Finish("engine",
              emit(update_video_size_emit(op["engine"], size), "on_playing", <<>>),
              "returned")
    /\ UNCHANGED <<state, current_source, media_type, last_error,
                   player_media, released, delivered>>
    /\ SizeFrame

on_vlc_playing_emit ==
    \E size \in VideoSizes : on_vlc_playing_emit_size(size) /\ UNCHANGED size_obs

\* the same with the engine's report recorded
on_vlc_playing_emit_reported ==
    \E size \in SizeReports :
       /\ Len(size_obs.reports) < MaxReports
       /\ on_vlc_playing_emit_size(size)
       /\ size_obs' = Reported(size)

\* the rest of a handler that emits one event and returns
EmitAndReturn(label, name, args) ==
    /\ pc["engine"] = label
    /\ Finish("engine", emit(op["engine"], name, args), "returned")
    /\ UNCHANGED <<state, current_source, media_type, last_error, video_size,
                   player_media, released, delivered>>
    /\ UNCHANGED <<audioVars, seekVars, configVars, sched, extVars>>

\* _on_vlc_paused, line 182
on_vlc_paused ==
    /\ CanBegin("engine")
    /\ ~released
    /\ op' = Records("engine", NewCall("on_vlc_paused"))
    /\ CallSetState("engine", loc["engine"], "PAUSED", "paused_emit")
    /\ NotifyFrame

\* _on_vlc_paused, line 183
on_vlc_paused_emit == EmitAndReturn("paused_emit", "on_paused", <<>>)

\* _on_vlc_stopped, line 187
on_vlc_stopped ==
    /\ CanBegin("engine")
    /\ ~released
    /\ op' = Records("engine", NewCall("on_vlc_stopped"))
    /\ CallSetState("engine", loc["engine"], "STOPPED", "stopped_emit")
    /\ NotifyFrame

\* _on_vlc_stopped, line 187, for a Stopped notification that the engine
\* delivers after release() has returned
on_vlc_stopped_late ==
    /\ CanBegin("engine")
    /\ released
    /\ op' = Records("engine", NewCall("on_vlc_stopped"))
    /\ CallSetState("engine", loc["engine"], "STOPPED", "stopped_emit")
    /\ NotifyFrame

\* _on_vlc_stopped, line 188
on_vlc_stopped_emit == EmitAndReturn("stopped_emit", "on_stopped", <<>>)

\* _on_vlc_ended, line 192
on_vlc_ended ==
    /\ CanBegin("engine")
    /\ ~released
    /\ op' = Records("engine", NewCall("on_vlc_ended"))
    /\ CallSetState("engine", loc["engine"], "ENDED", "ended_emit")
    /\ NotifyFrame

\* _on_vlc_ended, line 194
on_vlc_ended_emit == EmitAndReturn("ended_emit", "on_ended", <<>>)

\* _on_vlc_error, lines 198-199
on_vlc_error ==
    /\ CanBegin("engine")
    /\ ~released
    /\ last_error' = Some("Playback error occurred")
    /\ op' = Records("engine", NewCall("on_vlc_error"))
    /\ CallSetState("engine", loc["engine"], "ERROR", "error_emit")
    /\ UNCHANGED <<state, current_source, media_type, video_size,
                   player_media, released, last2, delivered>>
    /\ UNCHANGED <<audioVars, seekVars, configVars, sched, extVars>>

\* _on_vlc_error, line 201: the message is read again for the event
on_vlc_error_emit == EmitAndReturn("error_emit", "on_error", last_error)

\* _on_vlc_buffering, lines 212-213
on_vlc_buffering ==
    /\ CanBegin("engine")
    /\ ~released
    /\ op' = Records("engine", NewCall("on_vlc_buffering"))
    /\ IF state # "BUFFERING"
       THEN CallSetState("engine", loc["engine"], "BUFFERING", "buffering_emit")
       ELSE /\ pc' = [pc EXCEPT !["engine"] = "buffering_emit"]
            /\ UNCHANGED loc
    /\ NotifyFrame

\* _on_vlc_buffering, line 220
on_vlc_buffering_emit == EmitAndReturn("buffering_emit", "on_buffering", <<>>)

\* _on_vlc_time_changed
on_vlc_time_changed ==
    /\ CanBegin("engine")
    /\ ~released
    /\ Finish("engine",
              emit(NewCall("on_vlc_time_changed"), "on_time_changed", <<player_time>>),
              "returned")
    /\ UNCHANGED <<state, current_source, media_type, last_error, video_size,
                   player_media, released, delivered>>
    /\ UNCHANGED <<audioVars, seekVars, configVars, sched, extVars>>

\* _on_vlc_position_changed
on_vlc_position_changed ==
    /\ CanBegin("engine")
    /\ ~released
    /\ Finish("engine",
              emit(NewCall("on_vlc_position_changed"), "on_position_changed", <<>>),
              "returned")
    /\ UNCHANGED <<state, current_source, media_type, last_error, video_size,
                   player_media, released, delivered>>
    /\ UNCHANGED <<audioVars, seekVars, configVars, sched, extVars>>

\* _on_vlc_vout
on_vlc_vout_size(size) ==
    /\ CanBegin("engine")
    /\ ~released
    /\ video_size' = update_video_size(size)
    /\ Finish("engine",
              update_video_size_emit(NewCall("on_vlc_vout"), size),
              "returned")
    /\ UNCHANGED <<state, current_source, media_type, last_error,
                   player_media, released, delivered>>
    /\ SizeFrame

on_vlc_vout ==
    \E size \in VideoSizes : on_vlc_vout_size(size) /\ UNCHANGED size_obs

\* the same with the engine's report recorded
on_vlc_vout_reported ==
    \E size \in SizeReports :
       /\ Len(size_obs.reports) < MaxReports
       /\ on_vlc_vout_size(size)
       /\ size_obs' = Reported(size)

\* get_video_size, lines 654-656
get_video_size == video_size

(***************************************************************************)
(* AniVishBackend: volume and the emulated mute                            *)
(***************************************************************************)
MaxVolume == 100

\* as backend_set_volume, passing the argument on as it is
backend_set_volume_unclamped(vol) ==
    [volume |-> vol, muted |-> IF vol > 0 THEN FALSE ELSE muted, pre |-> pre_mute_volume]

\* as backend_set_volume, leaving the mute flag as it is
backend_set_volume_keeps_mute(vol) ==
    [volume |-> IF vol > MaxVolume THEN MaxVolume ELSE IF vol < 0 THEN 0 ELSE vol,
     muted |-> muted, pre |-> pre_mute_volume]

\* the adapter's fields and the engine's volume after set_volume(vol)
backend_set_volume(vol) ==
    LET v == IF vol > MaxVolume THEN MaxVolume ELSE IF vol < 0 THEN 0 ELSE vol
    IN [volume |-> v, muted |-> IF v > 0 THEN FALSE ELSE muted, pre |-> pre_mute_volume]

\* as backend_mute, without remembering the volume
backend_mute_forgets ==
    IF ~muted
    THEN [volume |-> 0, muted |-> TRUE, pre |-> pre_mute_volume]
    ELSE [volume |-> player_volume, muted |-> muted, pre |-> pre_mute_volume]

\* ... after mute()
backend_mute ==
    IF ~muted
    THEN [volume |-> 0, muted |-> TRUE, pre |-> player_volume]
    ELSE [volume |-> player_volume, muted |-> muted, pre |-> pre_mute_volume]

\* ... after unmute()
backend_unmute ==
    IF muted
    THEN [volume |-> pre_mute_volume, muted |-> FALSE, pre |-> pre_mute_volume]
    ELSE [volume |-> player_volume, muted |-> muted, pre |-> pre_mute_volume]

\* ... after toggle_mute()
backend_toggle_mute == IF muted THEN backend_unmute ELSE backend_mute

AudioBecomes(b) ==
    /\ player_volume' = b.volume
    /\ muted' = b.muted
    /\ pre_mute_volume' = b.pre

AudioFrame == UNCHANGED <<vmVars, seekVars, configVars, sched, extVars>>

\* VideoManager.set_volume -> AniVishBackend.set_volume
set_volume(vol) ==
    /\ AudioBecomes(backend_set_volume(vol))
    /\ audio_obs' = [phase |-> 1, v |-> vol, wasMuted |-> muted]
    /\ AudioFrame

\* VideoManager.mute -> AniVishBackend.mute
mute ==
    /\ AudioBecomes(backend_mute)
    /\ audio_obs' = [audio_obs EXCEPT !.phase = IF @ = 1 THEN 2 ELSE 0]
    /\ AudioFrame

\* VideoManager.unmute -> AniVishBackend.unmute
unmute ==
    /\ AudioBecomes(backend_unmute)
    /\ audio_obs' = [audio_obs EXCEPT !.phase = IF @ = 2 THEN 3 ELSE 0]
    /\ AudioFrame

\* VideoManager.toggle_mute -> AniVishBackend.toggle_mute
toggle_mute ==
    /\ AudioBecomes(backend_toggle_mute)
    /\ audio_obs' = [audio_obs EXCEPT !.phase = 0]
    /\ AudioFrame

(***************************************************************************)
(* AniVishBackend: relative seek                                           *)
(***************************************************************************)
\* times and lengths the engine reports go up to MaxTime (ms), offsets of
\* relative seeks up to MaxOffset either way
MaxTime == 4
MaxOffset == 6

\* as seek_relative_target, without max(0, ...)
seek_relative_target_no_floor(current, total, offset_ms) ==
    IF current >= 0
    THEN LET new_pos == current + offset_ms
         IN Some(IF total > 0 /\ total < new_pos THEN total ELSE new_pos)
    ELSE None

\* the position seek_relative passes to seek(), None when it does not seek
seek_relative_target(current, total, offset_ms) ==
    IF current >= 0
    THEN LET new_pos == IF current + offset_ms > 0 THEN current + offset_ms ELSE 0
         IN Some(IF total > 0 /\ total < new_pos THEN total ELSE new_pos)
    ELSE None

SeekFrame == UNCHANGED <<vmVars, audioVars, configVars, sched, skip_interval_short, extVars>>

\* VideoManager.seek_relative -> AniVishBackend.seek_relative -> seek; the
\* engine moves to a position it can reach
SeekRelative(offset_ms) ==
    LET target == seek_relative_target(player_time, player_length, offset_ms) IN
    /\ seek_obs' = [offset |-> offset_ms, time |-> player_time,
                    length |-> player_length, target |-> target]
    /\ player_time' = IF target # None /\ target[1] <= MaxTime THEN target[1] ELSE player_time
    /\ UNCHANGED player_length
    /\ SeekFrame

seek_relative(offset_ms) == SeekRelative(offset_ms)

\* VideoManager.skip_forward
skip_forward == SeekRelative(skip_interval_short)

\* VideoManager.skip_backward
skip_backward == SeekRelative(0 - skip_interval_short)

\* the engine plays on, or another media is set: time and length change
player_progress(time, length) ==
    /\ player_time' = time
    /\ player_length' = length
    /\ UNCHANGED seek_obs
    /\ SeekFrame

\* the defaults of the configuration (lines 15, 73, 18)
DefaultVolume == 100
DefaultMaxRecent == 10
DefaultSkipShort == 10000

(***************************************************************************)
(* ConfigLoader: the configuration tree, the file and the calls on them    *)
(***************************************************************************)
\* Python values: a type and a value (floats in hundredths)
PyInt(n) == [t |-> "int", v |-> n]
PyFloat(h) == [t |-> "float", v |-> h]
PyBool(b) == [t |-> "bool", v |-> b]
PyStr(s) == [t |-> "str", v |-> s]
PyList(s) == [t |-> "list", v |-> s]
PyDict(f) == [t |-> "dict", v |-> f]
PyNone == [t |-> "None", v |-> "None"]
PyMethod(name) == [t |-> "method", v |-> name]

Sections == {"playback", "audio", "subtitle", "ui", "logging"}

\* the dataclasses' fields and their defaults (lines 12-59)
PlaybackConfig ==
    [default_volume |-> PyInt(100), default_speed |-> PyFloat(100),
     resume_playback |-> PyBool(TRUE), skip_interval_short |-> PyInt(10000),
     skip_interval_long |-> PyInt(60000), auto_play_next |-> PyBool(FALSE)]

AudioConfig ==
    [preferred_audio_track |-> PyInt(-1), audio_delay_ms |-> PyInt(0),
     normalize_audio |-> PyBool(FALSE), preferred_language |-> PyStr("eng")]

SubtitleConfig ==
    [enabled |-> PyBool(TRUE), preferred_language |-> PyStr(""),
     subtitle_delay_ms |-> PyInt(0), font_size |-> PyInt(24),
     font_color |-> PyStr("#FFFFFF"), background_opacity |-> PyFloat(50)]

UIConfig ==
    [theme |-> PyStr("dark"), window_width |-> PyInt(1280),
     window_height |-> PyInt(720), window_maximized |-> PyBool(FALSE),
     show_controls_on_hover |-> PyBool(TRUE), controls_timeout_ms |-> PyInt(3000)]

LoggingConfig ==
    [level |-> PyStr("INFO"), log_to_file |-> PyBool(FALSE),
     log_directory |-> PyStr("./logs")]

DefaultFields(s) ==
    CASE s = "playback" -> PlaybackConfig
      [] s = "audio" -> AudioConfig
      [] s = "subtitle" -> SubtitleConfig
      [] s = "ui" -> UIConfig
      [] s = "logging" -> LoggingConfig

Fields(s) == DOMAIN DefaultFields(s)

\* an attribute every object has besides its fields
Docstring == "__doc__"

\* a section object: its fields, and the attributes of any instance
NewSection(values) == values @@ (Docstring :> PyStr("docstring"))

DefaultSections == [s \in Sections |-> NewSection(DefaultFields(s))]

\* asdict(section): the fields only
asdict(obj, s) == PyDict([k \in Fields(s) |-> obj[k]])

\* the root object AniVishConfig as the three variables hold it
TreeOf(secs, files, cap) == [sections |-> secs, recent_files |-> files, max_recent_files |-> cap]

Tree == TreeOf(sections, recent_files, max_recent_files)

DefaultTree == TreeOf(DefaultSections, <<>>, DefaultMaxRecent)

\* as config_to_dict, without the key max_recent_files
config_to_dict_no_cap(tree) ==
    PyDict([s \in Sections |-> asdict(tree.sections[s], s)]
           @@ ("recent_files" :> PyList([i \in 1..Len(tree.recent_files) |->
                                            PyStr(tree.recent_files[i])])))

\* _config_to_dict (lines 147-157)
config_to_dict(tree) ==
    PyDict([s \in Sections |-> asdict(tree.sections[s], s)]
           @@ ("recent_files" :> PyList([i \in 1..Len(tree.recent_files) |->
                                            PyStr(tree.recent_files[i])]))
           @@ ("max_recent_files" :> PyInt(tree.max_recent_files)))

\* json.dump: the JSON text as a value tree
RECURSIVE json_dump(_)
json_dump(pv) ==
    CASE pv.t = "dict" -> [j |-> "object", v |-> [k \in DOMAIN pv.v |-> json_dump(pv.v[k])]]
      [] pv.t = "list" -> [j |-> "array", v |-> [i \in 1..Len(pv.v) |-> json_dump(pv.v[i])]]
      [] pv.t = "int" -> [j |-> "integer", v |-> pv.v]
      [] pv.t = "float" -> [j |-> "fraction", v |-> pv.v]
      [] pv.t = "bool" -> [j |-> "literal", v |-> IF pv.v THEN "true" ELSE "false"]
      [] pv.t = "str" -> [j |-> "string", v |-> pv.v]
      [] OTHER -> [j |-> "literal", v |-> "null"]

\* json.load of a text that parses
RECURSIVE json_load(_)
json_load(jv) ==
    CASE jv.j = "object" -> PyDict([k \in DOMAIN jv.v |-> json_load(jv.v[k])])
      [] jv.j = "array" -> PyList([i \in 1..Len(jv.v) |-> json_load(jv.v[i])])
      [] jv.j = "integer" -> PyInt(jv.v)
      [] jv.j = "fraction" -> PyFloat(jv.v)
      [] jv.j = "string" -> PyStr(jv.v)
      [] jv.j = "literal" /\ jv.v = "true" -> PyBool(TRUE)
      [] jv.j = "literal" /\ jv.v = "false" -> PyBool(FALSE)
      [] OTHER -> PyNone

\* the file: missing, text that is not JSON, or JSON text
FileMissing == [kind |-> "missing", value |-> json_dump(PyNone)]
FileGarbage == [kind |-> "garbage", value |-> json_dump(PyNone)]
FileJson(pv) == [kind |-> "json", value |-> json_dump(pv)]

\* Section(**kwargs) raises TypeError unless kwargs is a dict of field names
kwargs_ok(s, kwargs) == kwargs.t = "dict" /\ DOMAIN kwargs.v \subseteq Fields(s)

\* Section(**kwargs): the fields given, the defaults for the others
construct(s, kwargs) ==
    NewSection([k \in Fields(s) |->
                   IF k \in DOMAIN kwargs.v THEN kwargs.v[k] ELSE DefaultFields(s)[k]])

\* the list of strings that data['recent_files'] holds
path_list(pv) == [i \in 1..Len(pv.v) |-> pv.v[i].v]

\* as dict_to_config, rejecting a top-level key it does not know
dict_to_config_strict(data) ==
    IF data.t # "dict" \/ ~(DOMAIN data.v \subseteq Sections \cup {"recent_files", "max_recent_files"})
    THEN None
    ELSE IF \E s \in Sections \cap DOMAIN data.v : ~kwargs_ok(s, data.v[s]) THEN None
    ELSE Some(TreeOf(
            [s \in Sections |-> IF s \in DOMAIN data.v THEN construct(s, data.v[s])
                                ELSE DefaultSections[s]],
            IF "recent_files" \in DOMAIN data.v THEN path_list(data.v["recent_files"]) ELSE <<>>,
            IF "max_recent_files" \in DOMAIN data.v THEN data.v["max_recent_files"].v
            ELSE DefaultMaxRecent))

\* _dict_to_config (lines 159-178): None when it raises, else the tree
dict_to_config(data) ==
    IF data.t = "list" THEN Some(DefaultTree)
    ELSE IF data.t # "dict" THEN None
    ELSE IF \E s \in Sections \cap DOMAIN data.v : ~kwargs_ok(s, data.v[s]) THEN None
    ELSE Some(TreeOf(
            [s \in Sections |-> IF s \in DOMAIN data.v THEN construct(s, data.v[s])
                                ELSE DefaultSections[s]],
            IF "recent_files" \in DOMAIN data.v THEN path_list(data.v["recent_files"]) ELSE <<>>,
            IF "max_recent_files" \in DOMAIN data.v THEN data.v["max_recent_files"].v
            ELSE DefaultMaxRecent))

\* _load of a file that exists (lines 120-132): every exception gives defaults
load_tree(file) ==
    IF file.kind = "garbage" THEN DefaultTree
    ELSE LET r == dict_to_config(json_load(file.value))
         IN IF r = None THEN DefaultTree ELSE r[1]

\* a tree in which every field differs from its default
ModifiedFields(s) ==
    CASE s = "playback" ->
            [default_volume |-> PyInt(50), default_speed |-> PyFloat(150),
             resume_playback |-> PyBool(FALSE), skip_interval_short |-> PyInt(5000),
             skip_interval_long |-> PyInt(30000), auto_play_next |-> PyBool(TRUE)]
      [] s = "audio" ->
            [preferred_audio_track |-> PyInt(2), audio_delay_ms |-> PyInt(-100),
             normalize_audio |-> PyBool(TRUE), preferred_language |-> PyStr("jpn")]
      [] s = "subtitle" ->
            [enabled |-> PyBool(FALSE), preferred_language |-> PyStr("eng"),
             subtitle_delay_ms |-> PyInt(250), font_size |-> PyInt(32),
             font_color |-> PyStr("#FFFF00"), background_opacity |-> PyFloat(75)]
      [] s = "ui" ->
            [theme |-> PyStr("light"), window_width |-> PyInt(1920),
             window_height |-> PyInt(1080), window_maximized |-> PyBool(TRUE),
             show_controls_on_hover |-> PyBool(FALSE), controls_timeout_ms |-> PyInt(1000)]
      [] s = "logging" ->
            [level |-> PyStr("DEBUG"), log_to_file |-> PyBool(TRUE),
             log_directory |-> PyStr("/tmp/logs")]

ModifiedTree ==
    TreeOf([s \in Sections |-> NewSection(ModifiedFields(s))], << <<"a.mp4">> >>, 5)

\* files written by hand: every field modified; the same with a top-level
\* key the loader does not know; sections with keys left out; a section
\* with a key it does not define; text that is not JSON
ModifiedData ==
    [s \in Sections |-> PyDict(ModifiedFields(s))]
    @@ ("recent_files" :> PyList(<<PyStr(<<"a.mp4">>)>>))
    @@ ("max_recent_files" :> PyInt(5))

FileModified == FileJson(PyDict(ModifiedData))

FileUnknownTop == FileJson(PyDict(ModifiedData @@ ("comment" :> PyStr("edited"))))

FilePartial ==
    FileJson(PyDict(("playback" :> PyDict("default_volume" :> PyInt(50)))
                    @@ ("ui" :> PyDict("theme" :> PyStr("light")))))

FileUnknownKey ==
    FileJson(PyDict(("playback" :> PyDict(("default_volume" :> PyInt(50))
                                           @@ ("bogus" :> PyInt(1))))
                    @@ ("ui" :> PyDict("theme" :> PyStr("light")))))

FileEdits == {FileModified, FileUnknownTop, FilePartial, FileUnknownKey, FileGarbage, FileMissing}

\* the attributes of an int and of a list that the calls below name
IntAttrs == {"real"}
ListAttrs == {"append"}

\* getattr(self._config, name, None): what kind of object the name gives
root_attr(name) ==
    IF name \in Sections THEN "section"
    ELSE IF name = "recent_files" THEN "list"
    ELSE IF name = "max_recent_files" THEN "int"
    ELSE "None"

\* bool(section_obj)
truthy(name) ==
    CASE root_attr(name) = "section" -> TRUE
      [] root_attr(name) = "list" -> recent_files # <<>>
      [] root_attr(name) = "int" -> max_recent_files # 0
      [] OTHER -> FALSE

\* hasattr(section_obj, key)
hasattr(name, key) ==
    CASE root_attr(name) = "section" -> key \in DOMAIN sections[name]
      [] root_attr(name) = "list" -> key \in ListAttrs
      [] root_attr(name) = "int" -> key \in IntAttrs
      [] OTHER -> FALSE

\* ConfigLoader.get (lines 214-226): the value returned
config_get(section, key, default) ==
    CASE root_attr(section) = "None" -> default
      [] root_attr(section) = "section" ->
            IF key \in DOMAIN sections[section] THEN sections[section][key] ELSE default
      [] root_attr(section) = "list" -> IF key \in ListAttrs THEN PyMethod(key) ELSE default
      [] root_attr(section) = "int" ->
            IF key \in IntAttrs THEN PyInt(max_recent_files) ELSE default

\* the arguments of set and get
SetInputs ==
    {<<"ui", "theme", PyStr("light")>>, <<"playback", "bogus", PyInt(1)>>, <<"bogus", "theme", PyStr("light")>>,
     <<"recent_files", "theme", PyStr("light")>>, <<"recent_files", "append", PyInt(1)>>,
     <<"max_recent_files", "real", PyInt(1)>>, <<"playback", Docstring, PyStr("note")>>}

\* the paths added in the store's specification
StorePaths == {<<"a.mp4">>}

\* observer: the call made last, the flags before it, the tree before it
\* when it is a set, and what it did; saved is the tree of the last save
\* whose file is still in place
StoreCall(name, args) ==
    [call |-> name, args |-> args, raised |-> FALSE, value |-> PyNone,
     tree |-> IF name = "set" THEN Tree ELSE DefaultTree,
     wasDirty |-> dirty, wasMutated |-> mutated,
     wrote |-> "none", saved |-> store_obs.saved]

StoreFrame == UNCHANGED <<vmVars, audioVars, seekVars, sched, recent_obs, restVars>>

KeepTree == UNCHANGED <<sections, recent_files, max_recent_files>>

\* a write ends well, fails before the file is touched, or fails midway
SaveOutcomes == {"ok", "open_failed", "write_failed"}

\* _save (lines 134-145), as part of the call o
Save(o) ==
    \E outcome \in SaveOutcomes :
       /\ config_file' = CASE outcome = "ok" -> FileJson(config_to_dict(Tree))
                           [] outcome = "open_failed" -> config_file
                           [] outcome = "write_failed" -> FileGarbage
       /\ dirty' = IF outcome = "ok" THEN FALSE ELSE dirty
       /\ mutated' = IF outcome = "ok" THEN FALSE ELSE mutated
       /\ store_obs' = [o EXCEPT !.wrote = outcome,
                                 !.saved = CASE outcome = "ok" -> Some(Tree)
                                             [] outcome = "open_failed" -> @
                                             [] outcome = "write_failed" -> None]

\* ConfigLoader.save
save ==
    /\ Save(StoreCall("save", <<>>))
    /\ KeepTree
    /\ StoreFrame

\* ConfigLoader.save_if_dirty
SaveIfDirty ==
    /\ IF dirty
       THEN Save(StoreCall("save_if_dirty", <<>>))
       ELSE /\ store_obs' = StoreCall("save_if_dirty", <<>>)
            /\ UNCHANGED <<config_file, dirty, mutated>>
    /\ KeepTree
    /\ StoreFrame

\* ConfigLoader.reload: _load (lines 113-132)
reload ==
    /\ IF config_file.kind = "missing"
       THEN Save(StoreCall("reload", <<>>)) /\ KeepTree
       ELSE LET tree == load_tree(config_file)
            IN /\ sections' = tree.sections
               /\ recent_files' = tree.recent_files
               /\ max_recent_files' = tree.max_recent_files
               /\ store_obs' = StoreCall("reload", <<>>)
               /\ UNCHANGED <<config_file, dirty, mutated>>
    /\ StoreFrame

\* someone else writes or deletes the file
EditFile ==
    /\ \E file \in FileEdits : config_file' = file
    /\ store_obs' = [StoreCall("edit", <<>>) EXCEPT !.saved = None]
    /\ UNCHANGED <<dirty, mutated>>
    /\ KeepTree
    /\ StoreFrame

\* ConfigLoader.set (lines 228-241)
Set(section, key, value) ==
    /\ IF truthy(section) /\ hasattr(section, key)
       THEN IF root_attr(section) = "section"
            THEN /\ sections' = [sections EXCEPT ![section][key] = value]
                 /\ dirty' = TRUE
                 /\ mutated' = (mutated \/ key \in Fields(section))
                 /\ store_obs' = StoreCall("set", <<section, key>>)
            ELSE /\ store_obs' = [StoreCall("set", <<section, key>>) EXCEPT !.raised = TRUE]
                 /\ UNCHANGED <<sections, dirty, mutated>>
       ELSE /\ store_obs' = StoreCall("set", <<section, key>>)
            /\ UNCHANGED <<sections, dirty, mutated>>
    /\ UNCHANGED <<recent_files, max_recent_files, config_file>>
    /\ StoreFrame

\* ConfigLoader.get
Get(section, key, default) ==
    /\ store_obs' = [StoreCall("get", <<section, key>>)
                        EXCEPT !.value = config_get(section, key, default)]
    /\ UNCHANGED <<config_file, dirty, mutated>>
    /\ KeepTree
    /\ StoreFrame

\* ConfigLoader.reset_to_defaults
reset_to_defaults ==
    /\ sections' = DefaultSections
    /\ recent_files' = <<>>
    /\ max_recent_files' = DefaultMaxRecent
    /\ dirty' = TRUE
    /\ mutated' = TRUE
    /\ store_obs' = StoreCall("reset_to_defaults", <<>>)
    /\ UNCHANGED config_file
    /\ StoreFrame

\* ConfigLoader.reset_section
reset_section(section) ==
    /\ IF section \in Sections
       THEN /\ sections' = [sections EXCEPT ![section] = DefaultSections[section]]
            /\ dirty' = TRUE
            /\ mutated' = TRUE
       ELSE UNCHANGED <<sections, dirty, mutated>>
    /\ store_obs' = StoreCall("reset_section", <<section>>)
    /\ UNCHANGED <<recent_files, max_recent_files, config_file>>
    /\ StoreFrame

(***************************************************************************)
(* ConfigLoader: calls on the recent-files list                            *)
(***************************************************************************)
RecentFrame ==
    UNCHANGED <<vmVars, audioVars, seekVars, sched, max_recent_files, sections,
                config_file, restVars>>

\* ConfigLoader.add_recent_file
AddRecentFile(path) ==
    /\ recent_files' = add_recent_file(recent_files, path, max_recent_files)
    /\ dirty' = TRUE
    /\ mutated' = TRUE
    /\ recent_obs' = [path |-> Some(path), before |-> recent_files]
    /\ store_obs' = StoreCall("add_recent_file", <<path>>)
    /\ RecentFrame

\* ConfigLoader.clear_recent_files
clear_recent_files ==
    /\ recent_files' = <<>>
    /\ dirty' = TRUE
    /\ mutated' = TRUE
    /\ recent_obs' = [path |-> None, before |-> recent_files]
    /\ store_obs' = StoreCall("clear_recent_files", <<>>)
    /\ RecentFrame

(***************************************************************************)
(* Validation and classification of a source                               *)
(***************************************************************************)
\* validate_source and _detect_media_type of a source, as load calls them
\* (lines 364 and 372)
ValidateSource(source) ==
    /\ url_obs' = [source |-> source, error |-> validate_source(source),
                   media_type |-> detect_media_type(source)]
    /\ UNCHANGED <<vmVars, audioVars, seekVars, configVars, sched, storeVars,
                   eventVars, size_obs, keyVars, uiVars>>

(***************************************************************************)
(* The callback registry: on, off and _emit                                *)
(***************************************************************************)
\* the keys of _callbacks, lines 90-101
EventNames ==
    {"on_playing", "on_paused", "on_stopped", "on_ended", "on_error",
     "on_time_changed", "on_position_changed", "on_buffering",
     "on_state_changed", "on_video_size_changed", "on_media_loaded"}

\* the callables registered in the registry's specification: one that
\* returns, one that raises an Exception, one that raises SystemExit (a
\* BaseException that is not an Exception), and one that unregisters itself
\* from the event when it is called
Callbacks == {"cb_returns", "cb_raises", "cb_exits", "cb_once"}

\* the event names passed to on and off; the last is not a key of _callbacks
NameArgs == {"on_error", "on_bogus"}

\* the event names emitted: one with registrations, one without, one unknown
EmitArgs == {"on_error", "on_state_changed", "on_bogus"}

\* the longest list of registrations explored for one event
MaxRegistrations == 2

\* the list of event_name after the callback has run (cb_once calls off)
after_callback(list, cb) ==
    IF cb = "cb_once" THEN list_remove(list, cb) ELSE list

\* as emit_callbacks, without the try/except of lines 160-163
RECURSIVE emit_callbacks_unprotected(_, _, _)
emit_callbacks_unprotected(list, i, invoked) ==
    IF i > Len(list) THEN [list |-> list, invoked |-> invoked, raised |-> FALSE]
    ELSE IF list[i] \in {"cb_raises", "cb_exits"}
         THEN [list |-> list, invoked |-> Append(invoked, list[i]), raised |-> TRUE]
         ELSE emit_callbacks_unprotected(after_callback(list, list[i]), i + 1,
                                         Append(invoked, list[i]))

\* _emit, lines 159-163: the for loop over the list object of the event; the
\* list iterator holds an index into the list and compares it with the
\* list's length at every step; an Exception of a callback is logged, any
\* other BaseException leaves the loop and _emit
RECURSIVE emit_callbacks(_, _, _)
emit_callbacks(list, i, invoked) ==
    IF i > Len(list) THEN [list |-> list, invoked |-> invoked, raised |-> FALSE]
    ELSE IF list[i] = "cb_exits"
         THEN [list |-> list, invoked |-> Append(invoked, list[i]), raised |-> TRUE]
    ELSE emit_callbacks(after_callback(list, list[i]), i + 1, Append(invoked, list[i]))

\* as callbacks_off, removing every registration of the callback
callbacks_off_all(registry, event_name, callback) ==
    IF event_name \in DOMAIN registry /\ list_contains(registry[event_name], callback)
    THEN [registry EXCEPT ![event_name] = SelectSeq(@, LAMBDA c : c # callback)]
    ELSE registry

\* off, lines 257-258
callbacks_off(registry, event_name, callback) ==
    IF event_name \in DOMAIN registry /\ list_contains(registry[event_name], callback)
    THEN [registry EXCEPT ![event_name] = list_remove(@, callback)]
    ELSE registry

\* observer: the call made last on the registry, the registry before it,
\* the callbacks it invoked in order, and whether it raised
EventCall(name, event_name, callback) ==
    [call |-> name, event_name |-> event_name, callback |-> callback,
     before |-> callbacks, invoked |-> <<>>, raised |-> FALSE]

EventFrame ==
    UNCHANGED <<vmVars, audioVars, seekVars, configVars, sched, storeVars,
                size_obs, url_obs, keyVars, uiVars>>

\* on, lines 249-253
On(event_name, callback) ==
    /\ event_name \in DOMAIN callbacks => Len(callbacks[event_name]) < MaxRegistrations
    /\ IF event_name \in DOMAIN callbacks
       THEN /\ callbacks' = [callbacks EXCEPT ![event_name] = Append(@, callback)]
            /\ emit_obs' = EventCall("on", event_name, callback)
       ELSE /\ callbacks' = callbacks
            /\ emit_obs' = [EventCall("on", event_name, callback) EXCEPT !.raised = TRUE]
    /\ EventFrame

\* off, lines 255-259
Off(event_name, callback) ==
    /\ callbacks' = callbacks_off(callbacks, event_name, callback)
    /\ emit_obs' = EventCall("off", event_name, callback)
    /\ EventFrame

\* _emit, line 157: self._callbacks.get(event_name, [])
registered(registry, event_name) ==
    IF event_name \in DOMAIN registry THEN registry[event_name] ELSE <<>>

\* _emit, lines 155-163
Emit(event_name) ==
    /\ LET run == emit_callbacks(registered(callbacks, event_name), 1, <<>>)
       IN /\ callbacks' = IF event_name \in DOMAIN callbacks
                          THEN [callbacks EXCEPT ![event_name] = run.list]
                          ELSE callbacks
          /\ emit_obs' = [EventCall("emit", event_name, "none") EXCEPT
                             !.invoked = run.invoked, !.raised = run.raised]
    /\ EventFrame

(***************************************************************************)
(* KeybindingManager: the table of key sequences and its file              *)
(***************************************************************************)
\* DEFAULT_KEYBINDINGS, lines 21-49
DEFAULT_KEYBINDINGS ==
    ("Space" :> "toggle_play_pause") @@ ("K" :> "toggle_play_pause")
    @@ ("P" :> "toggle_play_pause") @@ ("S" :> "stop")
    @@ ("Left" :> "seek_backward") @@ ("Right" :> "seek_forward")
    @@ ("Shift+Left" :> "seek_backward_long") @@ ("Shift+Right" :> "seek_forward_long")
    @@ ("Up" :> "volume_up") @@ ("Down" :> "volume_down")
    @@ ("M" :> "toggle_mute") @@ ("F" :> "toggle_fullscreen")
    @@ ("Escape" :> "exit_fullscreen") @@ ("Ctrl+O" :> "open_file")
    @@ ("Ctrl+U" :> "open_url") @@ ("Ctrl+L" :> "open_url")
    @@ ("Ctrl+R" :> "show_recent") @@ ("Ctrl+," :> "show_settings")
    @@ ("Ctrl+Q" :> "quit") @@ ("Ctrl+W" :> "quit")
    @@ ("J" :> "subtitle_delay_decrease") @@ ("L" :> "subtitle_delay_increase")
    @@ ("H" :> "audio_delay_decrease") @@ (";" :> "audio_delay_increase")
    @@ ("[" :> "speed_decrease") @@ ("]" :> "speed_increase")
    @@ ("=" :> "speed_reset")

\* a table as the dict of strings that self.keybindings holds
KeyDict(table) == PyDict([k \in DOMAIN table |-> PyStr(table[k])])

\* the mappings written to the keybinding file from outside: empty, one
\* override of a default key, a key the defaults do not have, both, and
\* two default keys with other actions
KeyMappings ==
    {KeyDict(<<>>), KeyDict("Space" :> "stop"), KeyDict("X" :> "quit"),
     KeyDict(("Space" :> "stop") @@ ("X" :> "quit")),
     KeyDict(("K" :> "quit") @@ ("Ctrl+Q" :> "stop"))}

\* the keybinding files: missing, not JSON, a JSON list, and the mappings
KeyFiles ==
    {FileMissing, FileGarbage, FileJson(PyList(<<>>))} \cup {FileJson(m) : m \in KeyMappings}

\* the config_path arguments: none, and the path of the keybinding file
KeyPaths == {None, Some("keybindings.json")}

\* as load_keybindings, with the defaults kept for the keys the file omits
load_keybindings_merged(config_path, file) ==
    IF config_path # None /\ file.kind # "missing"
    THEN IF file.kind = "json"
         THEN LET loaded == json_load(file.value)
              IN IF loaded.t = "dict"
                 THEN PyDict(loaded.v @@ KeyDict(DEFAULT_KEYBINDINGS).v)
                 ELSE loaded
         ELSE KeyDict(DEFAULT_KEYBINDINGS)
    ELSE KeyDict(DEFAULT_KEYBINDINGS)

\* load_keybindings, lines 115-124: the new value of self.keybindings
load_keybindings(config_path, file) ==
    IF config_path # None /\ file.kind # "missing"
    THEN IF file.kind = "json"
         THEN json_load(file.value)
         ELSE KeyDict(DEFAULT_KEYBINDINGS)
    ELSE KeyDict(DEFAULT_KEYBINDINGS)

KeyFrame ==
    UNCHANGED <<vmVars, audioVars, seekVars, configVars, sched, storeVars,
                eventVars, size_obs, url_obs, uiVars>>

\* load_keybindings, lines 113-125
LoadKeybindings(config_path) ==
    /\ keybindings' = load_keybindings(config_path, keybinding_file)
    /\ key_obs' = [call |-> "load", path |-> config_path, wrote |-> "none"]
    /\ UNCHANGED keybinding_file
    /\ KeyFrame

\* save_keybindings, lines 127-134: open or dump may fail, which is logged
SaveKeybindings(o) ==
    /\ keybinding_file' =
          CASE o = "ok" -> FileJson(keybindings)
            [] o = "write_failed" -> FileGarbage
            [] OTHER -> keybinding_file
    /\ key_obs' = [call |-> "save", path |-> Some("keybindings.json"), wrote |-> o]
    /\ UNCHANGED keybindings
    /\ KeyFrame

\* the keybinding file is written, replaced or removed from outside
EditKeyFile ==
    /\ \E file \in KeyFiles :
          /\ file # keybinding_file
          /\ keybinding_file' = file
    /\ key_obs' = [call |-> "edit", path |-> Some("keybindings.json"), wrote |-> "none"]
    /\ UNCHANGED keybindings
    /\ KeyFrame

(***************************************************************************)
(* The state after construction, and the specifications                    *)
(***************************************************************************)
InitManager ==
    /\ state = "IDLE"
    /\ current_source = None
    /\ media_type = "UNKNOWN"
    /\ last_error = None
    /\ video_size = <<0, 0>>
    /\ player_media = None
    /\ released = FALSE
    /\ pc = [t \in Threads |-> "idle"]
    /\ loc = [t \in Threads |-> InitLocals]
    /\ op = [t \in Threads |-> NoCall]
    /\ last2 = <<>>
    /\ delivered = None

InitBackend ==
    /\ player_volume = DefaultVolume
    /\ muted = FALSE
    /\ pre_mute_volume = MaxVolume
    /\ player_time = -1
    /\ player_length = -1
    /\ audio_obs = [phase |-> 0, v |-> 0, wasMuted |-> FALSE]
    /\ seek_obs = [offset |-> 0, time |-> -1, length |-> -1, target |-> None]

InitConfig ==
    /\ recent_files = <<>>
    /\ max_recent_files = DefaultMaxRecent
    /\ skip_interval_short = DefaultSkipShort
    /\ dirty = FALSE
    /\ recent_obs = [path |-> None, before |-> <<>>]

\* the store after construction from its own file, nothing called yet
InitStore ==
    /\ sections = DefaultSections
    /\ config_file = FileJson(config_to_dict(DefaultTree))
    /\ mutated = FALSE
    /\ store_obs = [call |-> "none", args |-> <<>>, raised |-> FALSE, value |-> PyNone,
                    tree |-> DefaultTree, wasDirty |-> FALSE,
                    wasMutated |-> FALSE, wrote |-> "none", saved |-> Some(DefaultTree)]

InitRest ==
    /\ callbacks = [n \in EventNames |-> <<>>]
    /\ emit_obs = [call |-> "none", event_name |-> "none", callback |-> "none",
                   before |-> [n \in EventNames |-> <<>>], invoked |-> <<>>,
                   raised |-> FALSE]
    /\ size_obs = [reports |-> <<>>, emitted |-> <<>>]
    /\ url_obs = [source |-> <<>>, error |-> None, media_type |-> "UNKNOWN"]
    /\ keybindings = KeyDict(<<>>)
    /\ keybinding_file = FileMissing
    /\ key_obs = [call |-> "none", path |-> None, wrote |-> "none"]
    /\ engine_events = <<>>
    /\ control_bar = [timer |-> FALSE, user_seeking |-> FALSE, total_duration_ms |-> None,
                      value |-> 0, seeks |-> <<>>, released_at |-> None]
    /\ settings_dialog = [constructed |-> FALSE, visible |-> FALSE,
                          default_volume |-> 0, skip_short |-> 1,
                          resume_playback |-> FALSE, preferred_sub_lang |-> "",
                          log_to_file |-> FALSE,
                          session |-> <<>>, before |-> None]
    /\ recent_files_dialog = [constructed |-> FALSE, visible |-> FALSE, items |-> <<>>]
    /\ open_url_dialog = [visible |-> FALSE, text |-> <<>>, error_style |-> FALSE,
                          submit |-> None]
    /\ main_window = [window_state |-> {}, before |-> None, toggles |-> 0,
                      geometry |-> [left |-> 0, top |-> 0, right |-> 799, bottom |-> 599],
                      resize_edge |-> {},
                      resize_start_geometry |-> [left |-> 0, top |-> 0, right |-> -1,
                                                 bottom |-> -1],
                      delta |-> None]
    /\ root_logger = [log_level |-> "INFO", console_handler |-> Some("INFO"),
                      file_handler |-> None, call |-> "none", level |-> None,
                      record |-> None, emitted |-> {}]
    /\ console = [running |-> TRUE, typed |-> <<>>, loaded |-> None, result |-> "none",
                  printed |-> "none"]

Init == InitManager /\ InitBackend /\ InitConfig /\ InitStore /\ InitRest /\ sched = "serial"

InitInterleaved ==
    InitManager /\ InitBackend /\ InitConfig /\ InitStore /\ InitRest /\ sched = "interleaved"

Next ==
    \/ \E inp \in LoadInputs : load(inp[1], inp[2])
    \/ load_invalid
    \/ load_set_media
    \/ load_failed
    \/ load_loaded
    \/ play
    \/ pause
    \/ stop
    \/ clear_error
    \/ clear_error_check
    \/ release
    \/ \E t \in Threads : set_state_check(t)
    \/ \E t \in Threads : set_state_old(t)
    \/ \E t \in Threads : set_state_write(t)
    \/ \E t \in Threads : set_state_emit(t)
    \/ \E t \in Threads : call_return(t)
    \/ on_vlc_playing
    \/ on_vlc_playing_emit
    \/ on_vlc_paused
    \/ on_vlc_paused_emit
    \/ on_vlc_stopped
    \/ on_vlc_stopped_emit
    \/ on_vlc_ended
    \/ on_vlc_ended_emit
    \/ on_vlc_error
    \/ on_vlc_error_emit
    \/ on_vlc_buffering
    \/ on_vlc_buffering_emit
    \/ on_vlc_time_changed
    \/ on_vlc_position_changed
    \/ on_vlc_vout

\* calls do not overlap
Spec == Init /\ [][Next]_vars

\* the volume arguments: around both ends of the range and inside it
VolumeSlack == 2
VolumeArgs ==
    ((0 - VolumeSlack)..VolumeSlack) \cup {50, 73}
    \cup ((MaxVolume - VolumeSlack)..(MaxVolume + VolumeSlack))

NextAudio ==
    \/ \E vol \in VolumeArgs : set_volume(vol)
    \/ mute
    \/ unmute
    \/ toggle_mute

SpecAudio == Init /\ [][NextAudio]_vars

Times == -1..MaxTime
Offsets == (0 - MaxOffset)..MaxOffset
SkipIntervals == {1, MaxTime + 1}

InitSeek ==
    /\ InitManager /\ InitBackend /\ InitStore /\ InitRest /\ sched = "serial"
    /\ recent_files = <<>>
    /\ max_recent_files = DefaultMaxRecent
    /\ skip_interval_short \in SkipIntervals
    /\ dirty = FALSE
    /\ recent_obs = [path |-> None, before |-> <<>>]

NextSeek ==
    \/ \E offset_ms \in Offsets : seek_relative(offset_ms)
    \/ skip_forward
    \/ skip_backward
    \/ \E time \in Times, length \in Times : player_progress(time, length)

SpecSeek == InitSeek /\ [][NextSeek]_vars

\* the paths added and the caps the configuration holds
RecentPaths == {<<"a.mp4">>, <<"b.mkv">>, <<"c.mp3">>, <<"d.avi">>}
RecentCaps == {1, 2, 3}

InitRecent ==
    /\ InitManager /\ InitBackend /\ InitStore /\ InitRest /\ sched = "serial"
    /\ recent_files = <<>>
    /\ max_recent_files \in RecentCaps
    /\ skip_interval_short = DefaultSkipShort
    /\ dirty = FALSE
    /\ recent_obs = [path |-> None, before |-> <<>>]

NextRecent ==
    \/ \E path \in RecentPaths : AddRecentFile(path)
    \/ clear_recent_files
    \/ SaveIfDirty

SpecRecent == InitRecent /\ [][NextRecent]_vars

\* the store after construction: the file was missing (and is written if
\* the write succeeds) or was there and is loaded
InitStoreSpec ==
    /\ InitManager /\ InitBackend /\ InitRest /\ sched = "serial"
    /\ skip_interval_short = DefaultSkipShort
    /\ dirty = FALSE
    /\ mutated = FALSE
    /\ recent_obs = [path |-> None, before |-> <<>>]
    /\ \E file \in FileEdits \cup {FileJson(config_to_dict(DefaultTree))} :
          /\ config_file = file
          /\ LET tree == IF file.kind = "missing" THEN DefaultTree ELSE load_tree(file)
             IN /\ sections = tree.sections
                /\ recent_files = tree.recent_files
                /\ max_recent_files = tree.max_recent_files
                /\ store_obs = [call |-> "none", args |-> <<>>, raised |-> FALSE,
                                value |-> PyNone, tree |-> DefaultTree,
                                wasDirty |-> FALSE, wasMutated |-> FALSE, wrote |-> "none",
                                saved |-> None]

NextStore ==
    \/ save
    \/ SaveIfDirty
    \/ reload
    \/ EditFile
    \/ \E inp \in SetInputs : Set(inp[1], inp[2], inp[3])
    \/ \E inp \in SetInputs : Get(inp[1], inp[2], PyStr("fallback"))
    \/ reset_to_defaults
    \/ \E section \in {"ui", "bogus"} : reset_section(section)
    \/ \E path \in StorePaths : AddRecentFile(path)
    \/ clear_recent_files

SpecStore == InitStoreSpec /\ [][NextStore]_vars

\* the calls on the callback registry and the emissions
NextEvents ==
    \/ \E event_name \in NameArgs, callback \in Callbacks : On(event_name, callback)
    \/ \E event_name \in NameArgs, callback \in Callbacks : Off(event_name, callback)
    \/ \E event_name \in EmitArgs : Emit(event_name)

SpecEvents == Init /\ [][NextEvents]_vars

\* the calls on the keybinding table and the edits of its file
NextKeys ==
    \/ \E config_path \in KeyPaths : LoadKeybindings(config_path)
    \/ \E o \in SaveOutcomes : SaveKeybindings(o)
    \/ EditKeyFile

SpecKeys == Init /\ [][NextKeys]_vars

\* loads, notifications and releases, also after a release
NextRelease ==
    \/ \E inp \in InterleavedLoadInputs : load(inp[1], inp[2])
    \/ load_invalid
    \/ load_set_media
    \/ load_failed
    \/ load_loaded
    \/ release
    \/ release_again
    \/ \E t \in Threads : set_state_check(t)
    \/ \E t \in Threads : set_state_old(t)
    \/ \E t \in Threads : set_state_write(t)
    \/ \E t \in Threads : set_state_emit(t)
    \/ \E t \in Threads : call_return(t)
    \/ on_vlc_playing
    \/ on_vlc_playing_emit
    \/ on_vlc_stopped
    \/ on_vlc_stopped_late
    \/ on_vlc_stopped_emit

SpecRelease == Init /\ [][NextRelease]_vars

\* the validation of every URL-shaped source
NextUrl == \E source \in UrlSources : ValidateSource(source)

SpecUrl == Init /\ [][NextUrl]_vars

\* the engine's notifications that query the video size
NextVideoSize ==
    \/ Len(size_obs.reports) < MaxReports /\ on_vlc_playing
    \/ set_state_check("engine")
    \/ set_state_old("engine")
    \/ set_state_write("engine")
    \/ set_state_emit("engine")
    \/ on_vlc_playing_emit_reported
    \/ on_vlc_vout_reported

SpecVideoSize == Init /\ [][NextVideoSize]_vars

\* the calls that read or write _state and _last_error
NextInterleaved ==
    \/ \E inp \in InterleavedLoadInputs : load(inp[1], inp[2])
    \/ load_invalid
    \/ load_set_media
    \/ load_failed
    \/ load_loaded
    \/ clear_error
    \/ clear_error_check
    \/ release
    \/ \E t \in Threads : set_state_check(t)
    \/ \E t \in Threads : set_state_old(t)
    \/ \E t \in Threads : set_state_write(t)
    \/ \E t \in Threads : set_state_emit(t)
    \/ \E t \in Threads : call_return(t)
    \/ on_vlc_playing
    \/ on_vlc_playing_emit
    \/ on_vlc_paused
    \/ on_vlc_paused_emit
    \/ on_vlc_stopped
    \/ on_vlc_stopped_emit
    \/ on_vlc_ended
    \/ on_vlc_ended_emit
    \/ on_vlc_error
    \/ on_vlc_error_emit
    \/ on_vlc_buffering
    \/ on_vlc_buffering_emit

\* the engine's thread and the main thread interleave
SpecInterleaved == InitInterleaved /\ [][NextInterleaved]_vars


(***************************************************************************)
(* Properties                                                              *)
(***************************************************************************)
Finished(o) == o.result \notin {"none", "running"}

\* the (old, new) pairs of the on_state_changed events a call emitted
StateChanges(o) ==
    LET sc == SelectSeq(o.emits, IsStateChanged) IN [i \in 1..Len(sc) |-> sc[i].args]

Differs(c) == c[1] # c[2]

\* the _set_state calls of a call whose target differed from the state seen
DistinctCalls(o) == SelectSeq(o.calls, Differs)

AllIdle == \A t \in Threads : Idle(t)

\* C1: a call emits on_state_changed(old, new) once for each of its
\* _set_state calls whose target differs from the current state, in order,
\* and for no other; of two consecutive Paused notifications the second
\* emits none, so that the two emit one when the first changed the state.
C1_EmitPerDistinctChange ==
    /\ \A t \in Threads :
          Finished(op[t]) => StateChanges(op[t]) = DistinctCalls(op[t])
    /\ (Len(last2) = 2 /\ last2[1].paused /\ last2[2].paused)
          => (last2[2].nsc = 0 /\ last2[1].nsc <= 1)

C1_Witness ==
    /\ Len(last2) = 2 /\ last2[1].paused /\ last2[2].paused
    /\ last2[1].nsc = 1 /\ last2[2].nsc = 0
    /\ Finished(op["engine"]) /\ op["engine"].name = "on_vlc_paused"
    /\ op["engine"].calls = << <<"PAUSED", "PAUSED">> >>
    /\ op["engine"].emits = << Event("on_paused", <<>>) >>

\* the thread that writes _state in this step
Writes(t) == pc[t] = "set_state_write"

EngineTarget(name) ==
    CASE name = "on_vlc_playing" -> "PLAYING"
      [] name = "on_vlc_paused" -> "PAUSED"
      [] name = "on_vlc_stopped" -> "STOPPED"
      [] name = "on_vlc_ended" -> "ENDED"
      [] name = "on_vlc_buffering" -> "BUFFERING"
      [] OTHER -> "ERROR"

C3_OrderedDeduplicatedChain ==
    [][\A t \in Threads :
          (pc[t] = "set_state_emit" /\ pc'[t] # "set_state_emit")
             => /\ loc[t].old # loc[t].new
                /\ delivered # None => loc[t].old = delivered[1]]_vars

\* the source without the blanks and quotes around it
Trimmed(raw) ==
    LET NotPad(c) == c \notin {Blank, DQuote, SQuote} IN SelectSeq(raw, NotPad)

\* an existing regular file whose extension is not a supported one
UnsupportedFile(source) ==
    Len(source) = 1 /\ source[1] \in {"movie.xyz"}

\* C4: a validating load of an existing file with an unsupported extension
\* raises InvalidSourceError, leaves the state ERROR and a last error
\* recorded, does not call the backend's set_media and leaves the current
\* source as it was.
C4_UnsupportedExtensionRejected ==
    LET o == op["main"] IN
    (Finished(o) /\ o.name = "load" /\ o.validate /\ UnsupportedFile(Trimmed(o.raw)))
       => /\ o.result = "InvalidSourceError"
          /\ state = "ERROR"
          /\ last_error # None /\ last_error[1] # ""
          /\ o.set_media = 0
          /\ current_source = o.preSource

C4_Witness ==
    LET o == op["main"] IN
    /\ Finished(o) /\ o.name = "load" /\ o.validate /\ UnsupportedFile(Trimmed(o.raw))
    /\ o.result = "InvalidSourceError" /\ state = "ERROR"
    /\ o.preSource = Some(<<"movie.mp4">>) /\ current_source = o.preSource

\* C5: after a load that returns, the current source is the trimmed input,
\* the last error is None, and the call emitted on_state_changed(_, LOADING),
\* on_state_changed(LOADING, STOPPED) and then on_media_loaded(source,
\* media_type), once each and in this order.
C5_SuccessfulLoad ==
    LET o == op["main"] IN
    (Finished(o) /\ o.name = "load" /\ o.result = "returned")
       => /\ current_source = Some(Trimmed(o.raw))
          /\ last_error = None
          /\ state = "STOPPED"
          /\ Len(o.emits) = 3
          /\ o.emits[1].name = "on_state_changed" /\ o.emits[1].args[2] = "LOADING"
          /\ o.emits[2] = Event("on_state_changed", <<"LOADING", "STOPPED">>)
          /\ o.emits[3] = Event("on_media_loaded", <<Trimmed(o.raw), media_type>>)

C5_Witness ==
    LET o == op["main"] IN
    /\ Finished(o) /\ o.name = "load" /\ o.result = "returned"
    /\ o.raw = <<Blank, DQuote, "movie.mp4", DQuote, Blank>>
    /\ current_source = Some(<<"movie.mp4">>)
    /\ o.emits[1] = Event("on_state_changed", <<"ERROR", "LOADING">>)
    /\ o.emits[3] = Event("on_media_loaded", <<(<<"movie.mp4">>), "LOCAL_FILE">>)

C7_MuteUnmuteRestores ==
    (audio_obs.v \in 0..MaxVolume)
       => /\ audio_obs.phase = 2 => (player_volume = 0 /\ muted)
          /\ audio_obs.phase = 3 => (player_volume = audio_obs.v /\ ~muted)

\* C7 amended: as stated, except that when set_volume(0) was called on a
\* muted adapter the unmute() restores the volume remembered by the earlier
\* mute() instead of 0.
C7_MuteUnmuteRestoresUnlessMutedZero ==
    (audio_obs.v \in 0..MaxVolume)
       => /\ audio_obs.phase = 2 => (player_volume = 0 /\ muted)
          /\ audio_obs.phase = 3
                => /\ ~muted
                   /\ player_volume = IF audio_obs.v = 0 /\ audio_obs.wasMuted
                                      THEN pre_mute_volume ELSE audio_obs.v

C7_Witness ==
    /\ audio_obs.phase = 3 /\ audio_obs.v = 73
    /\ player_volume = 73 /\ ~muted

\* C8: after set_volume(v) the volume reported is clamp(v, 0, 100).
C8_VolumeClamped ==
    audio_obs.phase = 1
       => player_volume = (IF audio_obs.v < 0 THEN 0
                           ELSE IF audio_obs.v > 100 THEN 100 ELSE audio_obs.v)

C8_Witness ==
    /\ audio_obs.phase = 1 /\ audio_obs.v = 101 /\ player_volume = 100

Clamp(x, lo, hi) == IF x < lo THEN lo ELSE IF x > hi THEN hi ELSE x

\* a relative seek was made at a known time c >= 0 and length d >= 0
SeekObserved == seek_obs.time >= 0 /\ seek_obs.length >= 0

NoDuplicates(s) == \A i, j \in 1..Len(s) : s[i] = s[j] => i = j

IsPrefix(s, u) == Len(s) <= Len(u) /\ \A i \in 1..Len(s) : s[i] = u[i]

\* C10: the recent-files list has no duplicate and at most max_recent_files
\* entries; after add_recent_file(path) the path is at the front and the
\* entries after it are the earlier entries other than path, in their
\* earlier order, as far as the cap allows.
C10_RecentFilesList ==
    /\ NoDuplicates(recent_files)
    /\ Len(recent_files) <= max_recent_files
    /\ recent_obs.path # None
          => LET path == recent_obs.path[1]
                 Other(f) == f # path
             IN /\ recent_files # <<>> /\ recent_files[1] = path
                /\ IsPrefix(Tail(recent_files), SelectSeq(recent_obs.before, Other))
                /\ Len(recent_files) =
                      Clamp(Len(SelectSeq(recent_obs.before, Other)) + 1, 0, max_recent_files)

C10_Witness ==
    /\ recent_obs.path # None
    /\ Len(recent_obs.before) = 3 /\ max_recent_files = 3
    /\ recent_obs.before[3] = recent_obs.path[1]
    /\ recent_files = <<recent_obs.before[3], recent_obs.before[1], recent_obs.before[2]>>

\* the two trees agree on every field of the five sections, on
\* recent_files and on max_recent_files
SameFields(t1, t2) ==
    /\ \A s \in Sections : \A k \in Fields(s) : t1.sections[s][k] = t2.sections[s][k]
    /\ t1.recent_files = t2.recent_files
    /\ t1.max_recent_files = t2.max_recent_files

\* the call made last was a reload that read the file
Reloaded == store_obs.call = "reload" /\ store_obs.wrote = "none"

\* C11: a reload of the file written by the last save gives a tree equal in
\* every field to the tree that was saved.
C11_SaveLoadRoundTrip ==
    (store_obs.call = "reload" /\ store_obs.saved # None)
       => SameFields(Tree, store_obs.saved[1])

C11_Witness ==
    /\ Reloaded /\ store_obs.saved # None
    /\ SameFields(Tree, ModifiedTree)
    /\ \A s \in Sections : \A k \in Fields(s) : sections[s][k] # DefaultFields(s)[k]
    /\ recent_files # <<>> /\ max_recent_files # DefaultMaxRecent

\* C12: a reload never raises; of a file with an unknown top-level key next
\* to valid sections it keeps the sections' values, and of a file that is
\* not JSON it gives the all-default tree.
C12_LoadNeverRaises ==
    store_obs.call = "reload"
       => /\ ~store_obs.raised
          /\ (Reloaded /\ config_file = FileUnknownTop) => SameFields(Tree, ModifiedTree)
          /\ (Reloaded /\ config_file.kind = "garbage") => SameFields(Tree, DefaultTree)

C12_Witness ==
    /\ Reloaded /\ config_file = FileUnknownTop
    /\ sections["ui"]["theme"] = PyStr("light") /\ max_recent_files = 5

\* C13: after a reload of a file whose sections are objects, every field
\* whose key the file gives has the file's value and every other field has
\* its default, whatever other keys the section objects hold.
C13_PerFieldFallback ==
    (Reloaded /\ config_file.kind = "json")
       => LET data == json_load(config_file.value)
          IN \A s \in Sections : \A k \in Fields(s) :
                sections[s][k] =
                   IF s \in DOMAIN data.v /\ k \in DOMAIN data.v[s].v
                   THEN data.v[s].v[k] ELSE DefaultFields(s)[k]

\* C14: save_if_dirty writes if and only if a mutation (set on a field of a
\* section, reset_to_defaults, reset_section, add_recent_file,
\* clear_recent_files) was made since the last successful save; a write
\* that succeeds clears the dirty flag, one that fails leaves it set, and
\* the call does not raise.
C14_SaveIfDirtyWritesIffMutated ==
    store_obs.call = "save_if_dirty"
       => /\ (store_obs.wrote # "none") <=> store_obs.wasMutated
          /\ store_obs.wrote = "ok" => ~dirty
          /\ store_obs.wrote \in {"open_failed", "write_failed"} => dirty
          /\ ~store_obs.raised

\* the section or the key is not one of the five sections and their fields
UnknownName(section, key) ==
    IF section \in Sections THEN key \notin Fields(section) ELSE TRUE

\* C15: set with an unknown section or key does not raise, changes no
\* value and leaves the dirty flag as it was; get with such names returns
\* the default supplied.
C15_UnknownNamesAreNoOps ==
    /\ (store_obs.call = "set" /\ UnknownName(store_obs.args[1], store_obs.args[2]))
          => /\ ~store_obs.raised
             /\ Tree = store_obs.tree
             /\ dirty = store_obs.wasDirty
    /\ (store_obs.call = "get" /\ UnknownName(store_obs.args[1], store_obs.args[2]))
          => store_obs.value = PyStr("fallback")

\* the number of registrations of callback c in list s
Registrations(s, c) == Cardinality({i \in 1..Len(s) : s[i] = c})

\* no callback of the list changes the registry while it runs, and none
\* raises anything but an Exception
Behaved(s) == ~list_contains(s, "cb_once") /\ ~list_contains(s, "cb_exits")

\* C16 as stated: every emission invokes the registrations of the event
\* once each in registration order and raises nothing to the emitter.
C16_EveryCallbackOnce ==
    emit_obs.call = "emit"
       => /\ emit_obs.invoked = registered(emit_obs.before, emit_obs.event_name)
          /\ ~emit_obs.raised

\* C16: an emission whose callbacks leave the registry alone and raise
\* nothing but Exceptions invokes the registrations of the event once each
\* in registration order, also after one of them raised, raises nothing to
\* the emitter and leaves the registry as it was.
C16_EmitInvokesAllInOrder ==
    (emit_obs.call = "emit" /\ Behaved(registered(emit_obs.before, emit_obs.event_name)))
       => /\ emit_obs.invoked = registered(emit_obs.before, emit_obs.event_name)
          /\ ~emit_obs.raised
          /\ callbacks = emit_obs.before

C16_Witness ==
    /\ emit_obs.call = "emit"
    /\ registered(emit_obs.before, emit_obs.event_name) = <<"cb_raises", "cb_returns">>
    /\ emit_obs.invoked = <<"cb_raises", "cb_returns">>

\* C17: on with an unknown event name raises and leaves the registry as it
\* was; off with an unknown name or a callback that is not registered for
\* the name raises nothing and leaves the registry as it was; off of a
\* registered callback removes one registration of it and nothing else.
C17_OnOffContract ==
    LET o == emit_obs
        known == o.event_name \in EventNames
    IN /\ (o.call = "on" /\ ~known) => (o.raised /\ callbacks = o.before)
       /\ (o.call = "off" /\ (~known \/ ~list_contains(o.before[o.event_name], o.callback)))
             => (~o.raised /\ callbacks = o.before)
       /\ (o.call = "off" /\ known /\ list_contains(o.before[o.event_name], o.callback))
             => /\ ~o.raised
                /\ \A n \in EventNames \ {o.event_name} : callbacks[n] = o.before[n]
                /\ \A c \in Callbacks :
                      Registrations(callbacks[o.event_name], c) =
                         Registrations(o.before[o.event_name], c)
                            - (IF c = o.callback THEN 1 ELSE 0)
                /\ SelectSeq(callbacks[o.event_name], LAMBDA c : c # o.callback) =
                      SelectSeq(o.before[o.event_name], LAMBDA c : c # o.callback)

C17_Witness ==
    /\ emit_obs.call = "off"
    /\ registered(emit_obs.before, emit_obs.event_name) = <<"cb_returns", "cb_returns">>
    /\ registered(callbacks, emit_obs.event_name) = <<"cb_returns">>

\* the size cached after the given emissions
LastEmitted(emitted) == IF emitted = <<>> THEN <<0, 0>> ELSE emitted[Len(emitted)]

\* the reports of a sequence that are to be notified: those with both
\* dimensions positive that differ from the size notified last
RECURSIVE ToNotify(_, _)
ToNotify(reports, emitted) ==
    IF reports = <<>> THEN emitted
    ELSE LET size == Head(reports)
         IN ToNotify(Tail(reports),
                     IF size[1] > 0 /\ size[2] > 0 /\ size # LastEmitted(emitted)
                     THEN Append(emitted, size) ELSE emitted)

\* C18: after any sequence of size reports the on_video_size_changed events
\* emitted are exactly the reports with positive width and height that
\* differ from the size cached before them, and get_video_size returns the
\* size emitted last, or 0x0 when none was emitted.
C18_VideoSizeNotifications ==
    /\ size_obs.emitted = ToNotify(size_obs.reports, <<>>)
    /\ get_video_size = LastEmitted(size_obs.emitted)

C18_Witness ==
    /\ size_obs.reports = <<<<0, 0>>, <<1920, 1080>>, <<1920, 1080>>, <<1280, 720>>>>
    /\ size_obs.emitted = <<<<1920, 1080>>, <<1280, 720>>>>
    /\ get_video_size = <<1280, 720>>

StreamSchemes == {"http", "https", "rtsp", "rtmp", "mms"}

\* the host of a URL: the part of its authority between the user and the port
url_host(s) ==
    LET hosts == SelectSeq(url_netloc(s), LAMBDA tok : tok \in HostTokens)
    IN IF hosts = <<>> THEN "" ELSE lower(hosts[1])

\* C19: a source with a streaming scheme and an empty host is rejected as
\* missing host; a source containing '://' with a scheme outside the six
\* supported ones is rejected as unsupported scheme; an accepted source
\* with a streaming scheme is classified by the extension of its path.
C19_UrlRule ==
    LET s == url_obs.source
    IN s # <<>> =>
       /\ (url_scheme(s) \in StreamSchemes /\ url_host(s) = "")
             => url_obs.error = Some("URL missing host")
       /\ (has_scheme_sep(s) /\ url_scheme(s) \notin StreamSchemes \cup {"file", ""})
             => url_obs.error = Some("Unsupported URL scheme")
       /\ (url_obs.error = None /\ url_scheme(s) \in StreamSchemes)
             => url_obs.media_type =
                   CASE url_path_ext(s) \in {".m3u8", ".m3u"} -> "STREAM_HLS"
                     [] url_path_ext(s) = ".mpd" -> "STREAM_DASH"
                     [] OTHER -> "HTTP_URL"

\* a load that found no file to parse: no path given, no file, or no JSON
LoadedDefaults ==
    /\ key_obs.call = "load"
    /\ (key_obs.path = None \/ keybinding_file.kind \in {"missing", "garbage"})

\* a load of the file with the given mapping
LoadedFile(m) ==
    key_obs.call = "load" /\ key_obs.path # None /\ keybinding_file = FileJson(m)

\* C20 as stated: the same with a default table of 28 entries.
C20_DefaultTableOf28 ==
    /\ LoadedDefaults
          => /\ keybindings = KeyDict(DEFAULT_KEYBINDINGS)
             /\ Cardinality(DOMAIN keybindings.v) = 28
    /\ \A m \in KeyMappings : LoadedFile(m) => keybindings = m

\* C20: load_keybindings without a path, with a missing file or with a file
\* that is not JSON gives the default table, which has 27 entries; with a
\* file that parses it gives the file's mapping and no key besides.
C20_LoadKeybindings ==
    /\ LoadedDefaults
          => /\ keybindings = KeyDict(DEFAULT_KEYBINDINGS)
             /\ Cardinality(DOMAIN keybindings.v) = 27
    /\ \A m \in KeyMappings :
          LoadedFile(m) => (keybindings = m /\ DOMAIN keybindings.v = DOMAIN m.v)

C20_Witness ==
    /\ LoadedFile(KeyDict("Space" :> "stop"))
    /\ DOMAIN keybindings.v = {"Space"}
    /\ keybindings.v["Space"] = PyStr("stop")

\* a release() call has just ended
ReleaseEnded == op["main"].name = "release" /\ pc["main"] \in {"idle", "crashed"}

ReleaseCompleted == released /\ pc["main"] = "idle"

\* C28: after release() has completed the state stays IDLE and no handler
\* of an engine notification emits an event.
C28_StaysReleased ==
    ReleaseCompleted
       => /\ state = "IDLE"
          /\ op["engine"].emits = <<>>

\* no call runs on either thread
Quiescent == \A t \in Threads : Idle(t)

\* C29: whenever no call is running and the state is ERROR,
\* get_last_error() returns a message, whatever the interleaving of the
\* engine's error notification with clear_error() and load() was.
C29_ErrorHasMessage ==
    (Quiescent /\ state = "ERROR") => last_error # None

\* the state is written by the handler of a buffering notification
WrittenByBuffering ==
    \E t \in Threads : pc[t] = "set_state_write" /\ op[t].name = "on_vlc_buffering"

IsBuffering(e) == e.name = "on_buffering"

\* C27: the state becomes BUFFERING, and stops being BUFFERING, only in a
\* step of the handler of a buffering notification; a finished buffering
\* notification has emitted on_buffering once, and no on_state_changed
\* when the state was BUFFERING already.
C27_BufferingOnlyViaBuffering ==
    /\ [][(state' # state /\ "BUFFERING" \in {state, state'}) => WrittenByBuffering]_vars
    /\ [](\A t \in Threads :
            (op[t].name = "on_vlc_buffering" /\ Finished(op[t]))
               => /\ Len(SelectSeq(op[t].emits, IsBuffering)) = 1
                  /\ (op[t].calls = <<>> => SelectSeq(op[t].emits, IsStateChanged) = <<>>))

\* the tree the file at the resolved path decodes to, if it decodes
FileTree ==
    IF config_file.kind = "json" THEN dict_to_config(json_load(config_file.value)) ELSE None

\* C30: whenever the dirty flag is clear, the file decodes to a tree whose
\* fields, recent files and limit equal those of the tree in memory.
C30_CleanMeansFileEqualsTree ==
    ~dirty => (FileTree # None /\ SameFields(FileTree[1], Tree))

(***************************************************************************)
(* Playback requests and the engine's notifications.  The engine queues a  *)
(* notification when a request changes what it does, and its thread        *)
(* delivers the queue in order to the handlers of lines 174-188; a handler *)
(* runs as a whole, the subscribers being called inside it.                *)
(***************************************************************************)
Notifications == {"Playing", "Paused", "Stopped"}

\* the state a handler sets and the event it emits (lines 176-188)
notified_state(n) ==
    CASE n = "Playing" -> "PLAYING" [] n = "Paused" -> "PAUSED" [] n = "Stopped" -> "STOPPED"

\* as notified_event, every handler emitting on_playing
notified_event_playing(n) == "on_playing"

notified_event(n) ==
    CASE n = "Playing" -> "on_playing" [] n = "Paused" -> "on_paused"
      [] n = "Stopped" -> "on_stopped"

\* the longest queue of notifications and the most registrations explored
MaxPending == 1
MaxSubscribers == 2

\* the events subscribed to and the callables registered
PlaybackEvents == {"on_playing", "on_paused", "on_stopped", "on_state_changed"}
Subscribers == {"cb_returns", "cb_once", "cb_exits"}

\* what the engine does once the queue is delivered
EngineState ==
    IF engine_events # <<>> THEN engine_events[Len(engine_events)]
    ELSE CASE state = "PLAYING" -> "Playing" [] state = "PAUSED" -> "Paused"
           [] OTHER -> "Stopped"

Queue(n) ==
    /\ Len(engine_events) < MaxPending
    /\ engine_events' = Append(engine_events, n)

PlaybackFrame ==
    UNCHANGED <<audioVars, seekVars, configVars, sched, storeVars, size_obs, url_obs,
                keyVars, control_bar, settings_dialog, shellVars,
                last_error, released, pc, loc, op, last2, delivered>>

RequestFrame ==
    /\ UNCHANGED <<state, current_source, media_type, video_size, player_media, eventVars>>
    /\ PlaybackFrame

\* on, called before the first load as in test_controls.py, lines 47-51
Subscribe(event_name, callback) ==
    /\ current_source = None
    /\ Len(callbacks["on_playing"]) + Len(callbacks["on_paused"])
          + Len(callbacks["on_stopped"]) + Len(callbacks["on_state_changed"]) < MaxSubscribers
    /\ On(event_name, callback)

\* load of a stream URL that validates, lines 359-393; no callback is
\* registered for on_media_loaded, and the state_changed callbacks are called
\* for LOADING and for STOPPED
load_stream ==
    /\ engine_events = <<>>
    /\ LET source == <<"https://example.com/stream.m3u8">>
           run1 == IF state # "LOADING"
                   THEN emit_callbacks(callbacks["on_state_changed"], 1, <<>>)
                   ELSE [list |-> callbacks["on_state_changed"], invoked |-> <<>>,
                         raised |-> FALSE]
           run2 == emit_callbacks(run1.list, 1, <<>>)
       IN /\ media_type' = detect_media_type(source)
          /\ IF run1.raised
             THEN /\ state' = "LOADING"
                  /\ callbacks' = [callbacks EXCEPT !["on_state_changed"] = run1.list]
                  /\ UNCHANGED <<current_source, player_media>>
             ELSE /\ state' = "STOPPED"
                  /\ player_media' = Some(source)
                  /\ current_source' = Some(source)
                  /\ callbacks' = [callbacks EXCEPT !["on_state_changed"] = run2.list]
          /\ emit_obs' = EventCall("load", "on_media_loaded", "none")
    /\ UNCHANGED <<video_size, engine_events>>
    /\ PlaybackFrame

\* play, lines 416-423
play_request ==
    /\ IF current_source # None /\ EngineState # "Playing"
       THEN Queue("Playing")
       ELSE UNCHANGED engine_events
    /\ RequestFrame

\* pause, lines 425-428: the engine's pause toggles
pause_request ==
    /\ CASE EngineState = "Playing" -> Queue("Paused")
         [] EngineState = "Paused" -> Queue("Playing")
         [] OTHER -> UNCHANGED engine_events
    /\ RequestFrame

\* stop, lines 430-433
stop_request ==
    /\ IF EngineState # "Stopped"
       THEN Queue("Stopped")
       ELSE UNCHANGED engine_events
    /\ RequestFrame

\* _on_vlc_playing, _on_vlc_paused, _on_vlc_stopped (lines 174-188) for the
\* notification n: _set_state with its emission, the video size for
\* Playing, and the emission of the handler's event; a BaseException of a
\* callback ends the handler there
notify(n, size, event_name) ==
    LET new == notified_state(n)
        run1 == IF state # new
                THEN emit_callbacks(callbacks["on_state_changed"], 1, <<>>)
                ELSE [list |-> callbacks["on_state_changed"], invoked |-> <<>>,
                      raised |-> FALSE]
        reg1 == [callbacks EXCEPT !["on_state_changed"] = run1.list]
        run2 == emit_callbacks(reg1[event_name], 1, <<>>)
    IN /\ state' = new
       /\ video_size' = IF n = "Playing" /\ ~run1.raised
                        THEN update_video_size(size) ELSE video_size
       /\ callbacks' = IF run1.raised THEN reg1
                       ELSE [reg1 EXCEPT ![event_name] = run2.list]
       /\ emit_obs' = [EventCall("notify", event_name, "none") EXCEPT
                          !.invoked = IF run1.raised THEN <<>> ELSE run2.invoked,
                          !.raised = run1.raised \/ run2.raised]

\* video_get_width, video_get_height: the stream is an audio stream
video_get_size == <<0, 0>>

\* the engine's thread delivers the oldest notification
deliver_notification ==
    /\ engine_events # <<>>
    /\ notify(Head(engine_events), video_get_size, notified_event(Head(engine_events)))
    /\ engine_events' = Tail(engine_events)
    /\ UNCHANGED <<current_source, media_type, player_media>>
    /\ PlaybackFrame

NextPlayback ==
    \/ \E event_name \in PlaybackEvents, callback \in Subscribers :
          Subscribe(event_name, callback)
    \/ load_stream
    \/ play_request
    \/ pause_request
    \/ stop_request
    \/ deliver_notification

SpecPlayback == Init /\ [][NextPlayback]_vars

\* the engine's thread runs on its own: a notification that is queued is
\* delivered
SpecPlaybackLive == SpecPlayback /\ WF_vars(deliver_notification)

Pending(n) == \E i \in 1..Len(engine_events) : engine_events[i] = n

\* the handler of the event ran and called every callback registered for it
DeliveredToAll(event_name) ==
    /\ emit_obs.call = "notify" /\ emit_obs.event_name = event_name
    /\ \A i \in 1..Len(emit_obs.before[event_name]) :
          list_contains(emit_obs.invoked, emit_obs.before[event_name][i])

\* C22: a play, pause or stop request that the engine acts on (its
\* notification is queued) is eventually followed by the on_playing,
\* on_paused or on_stopped event, delivered to every callback registered
\* for it.
C22_RequestsAreNotified ==
    /\ Pending("Playing") ~> DeliveredToAll("on_playing")
    /\ Pending("Paused") ~> DeliveredToAll("on_paused")
    /\ Pending("Stopped") ~> DeliveredToAll("on_stopped")

\* no callback registered for the event or for on_state_changed changes
\* the registry or raises a BaseException that is not an Exception
Ordinary(registry, event_name) ==
    \A name \in {event_name, "on_state_changed"} : \A i \in 1..Len(registry[name]) :
       registry[name][i] \in {"cb_returns", "cb_raises"}

\* the handler of the event ran, and called the callbacks as registered if
\* they are ordinary
DeliveredToOrdinary(event_name) ==
    /\ emit_obs.call = "notify" /\ emit_obs.event_name = event_name
    /\ Ordinary(emit_obs.before, event_name)
          => emit_obs.invoked = emit_obs.before[event_name]

\* C22, amended: the handler of the notification runs eventually, and it
\* calls every callback registered for the event, once and in order, when
\* the callbacks are ordinary.
C22_OrdinarySubscribersAreNotified ==
    /\ Pending("Playing") ~> DeliveredToOrdinary("on_playing")
    /\ Pending("Paused") ~> DeliveredToOrdinary("on_paused")
    /\ Pending("Stopped") ~> DeliveredToOrdinary("on_stopped")

C22_Witness ==
    /\ emit_obs.call = "notify" /\ emit_obs.event_name = "on_paused"
    /\ emit_obs.before["on_paused"] = <<"cb_returns", "cb_returns">>
    /\ emit_obs.invoked = <<"cb_returns", "cb_returns">>
    /\ state = "PAUSED" /\ current_source # None

(***************************************************************************)
(* KeybindingManager.eventFilter: key presses on the main window           *)
(***************************************************************************)
\* the names _setup_actions registers (lines 66-111)
ActionNames ==
    {"toggle_play_pause", "stop", "seek_backward", "seek_forward",
     "seek_backward_long", "seek_forward_long", "volume_up", "volume_down",
     "toggle_mute", "speed_decrease", "speed_increase", "speed_reset",
     "subtitle_delay_increase", "subtitle_delay_decrease",
     "audio_delay_increase", "audio_delay_decrease", "toggle_fullscreen",
     "exit_fullscreen", "open_file", "open_url", "show_recent", "show_settings", "quit"}

\* the keys pressed (QKeySequence(key).toString()) and the modifiers held
PressedKeys == {"Space", "X", "Q", "Left"}
Modifiers == {"Ctrl", "Shift", "Alt"}

\* the action called returns or raises an Exception
ActionOutcomes == {"returns", "raises"}

RECURSIVE join_plus(_)
join_plus(parts) ==
    IF Len(parts) = 1 THEN parts[1] ELSE parts[1] \o "+" \o join_plus(Tail(parts))

\* _event_to_string, lines 158-171
event_to_string(modifiers, key) ==
    LET held == (IF "Ctrl" \in modifiers THEN <<"Ctrl">> ELSE <<>>)
                   \o (IF "Shift" \in modifiers THEN <<"Shift">> ELSE <<>>)
                   \o (IF "Alt" \in modifiers THEN <<"Alt">> ELSE <<>>)
    IN IF held # <<>> THEN join_plus(Append(held, key)) ELSE key

\* key_sequence in self.keybindings, for the dict or list that was loaded
in_keybindings(key_sequence) ==
    IF keybindings.t = "dict" THEN key_sequence \in DOMAIN keybindings.v
    ELSE \E i \in 1..Len(keybindings.v) : keybindings.v[i] = PyStr(key_sequence)

\* as event_filter, without the try/except of lines 148-151
event_filter_unprotected(key_sequence, outcome) ==
    IF in_keybindings(key_sequence)
    THEN IF keybindings.t # "dict"
         THEN [invoked |-> <<>>, handled |-> FALSE, raised |-> TRUE]
         ELSE LET action_name == keybindings.v[key_sequence].v
              IN IF action_name \in ActionNames
                 THEN [invoked |-> <<action_name>>, handled |-> outcome = "returns",
                       raised |-> outcome = "raises"]
                 ELSE [invoked |-> <<>>, handled |-> FALSE, raised |-> FALSE]
    ELSE [invoked |-> <<>>, handled |-> FALSE, raised |-> FALSE]

\* eventFilter for a key press, lines 142-154: the actions called, the value
\* returned, and whether an exception leaves the filter
event_filter(key_sequence, outcome) ==
    IF in_keybindings(key_sequence)
    THEN IF keybindings.t # "dict"
         THEN [invoked |-> <<>>, handled |-> FALSE, raised |-> TRUE]
         ELSE LET action_name == keybindings.v[key_sequence].v
              IN IF action_name \in ActionNames
                 THEN [invoked |-> <<action_name>>, handled |-> TRUE, raised |-> FALSE]
                 ELSE [invoked |-> <<>>, handled |-> FALSE, raised |-> FALSE]
    ELSE [invoked |-> <<>>, handled |-> FALSE, raised |-> FALSE]

KeyPress(modifiers, key, outcome) ==
    /\ LET key_sequence == event_to_string(modifiers, key)
           r == event_filter(key_sequence, outcome)
       IN key_obs' = [call |-> "key_press", path |-> None, wrote |-> "none",
                      modifiers |-> modifiers, key |-> key, outcome |-> outcome,
                      invoked |-> r.invoked, handled |-> r.handled, raised |-> r.raised]
    /\ UNCHANGED <<keybindings, keybinding_file>>
    /\ KeyFrame

\* the keybinding files of the key presses' specification: those of
\* KeyFiles, one that maps a key to a name that is no action, and one that
\* binds a key with all three modifiers
KeyPressFiles ==
    KeyFiles \cup {FileJson(KeyDict(("X" :> "bogus") @@ ("Space" :> "stop"))),
                   FileJson(KeyDict("Ctrl+Shift+Alt+Left" :> "seek_backward"))}

EditKeyPressFile ==
    /\ \E file \in KeyPressFiles :
          /\ file # keybinding_file
          /\ keybinding_file' = file
    /\ key_obs' = [call |-> "edit", path |-> Some("keybindings.json"), wrote |-> "none"]
    /\ UNCHANGED keybindings
    /\ KeyFrame

NextKeyPress ==
    \/ \E config_path \in KeyPaths : LoadKeybindings(config_path)
    \/ EditKeyPressFile
    \/ \E modifiers \in SUBSET Modifiers, key \in PressedKeys, outcome \in ActionOutcomes :
          KeyPress(modifiers, key, outcome)

SpecKeyPress == Init /\ [][NextKeyPress]_vars

\* the canonical string of the key press observed
Pressed ==
    LET m == key_obs.modifiers
    IN (IF "Ctrl" \in m THEN "Ctrl+" ELSE "") \o (IF "Shift" \in m THEN "Shift+" ELSE "")
          \o (IF "Alt" \in m THEN "Alt+" ELSE "") \o key_obs.key

InKeymap == keybindings.t = "dict" /\ Pressed \in DOMAIN keybindings.v

\* C23: a key press whose canonical string is a key of the keymap calls the
\* mapped action once and is handled, whether the action raises or not; any
\* other key press calls no action and is not handled.
C23_KeyPressDispatch ==
    key_obs.call = "key_press"
       => /\ ~key_obs.raised
          /\ IF InKeymap
             THEN key_obs.invoked = <<keybindings.v[Pressed].v>> /\ key_obs.handled
             ELSE key_obs.invoked = <<>> /\ ~key_obs.handled

\* C23, amended: as C23 when the mapped name is a registered action; a key
\* press whose string is mapped to a name that is no action calls nothing
\* and is not handled.
C23_KeyPressDispatchRegistered ==
    key_obs.call = "key_press"
       => /\ ~key_obs.raised
          /\ IF InKeymap /\ keybindings.v[Pressed].v \in ActionNames
             THEN key_obs.invoked = <<keybindings.v[Pressed].v>> /\ key_obs.handled
             ELSE key_obs.invoked = <<>> /\ ~key_obs.handled

C23_Witness ==
    /\ key_obs.call = "key_press" /\ key_obs.outcome = "raises"
    /\ key_obs.modifiers = Modifiers /\ key_obs.key = "Left"
    /\ key_obs.invoked = <<"seek_backward">> /\ key_obs.handled

(***************************************************************************)
(* ControlBar: the position timer and the seek slider.  The control bar's  *)
(* callbacks are registered at its construction (control_bar.py, lines     *)
(* 354-360); a notification of the Video Manager runs the manager's        *)
(* handler and, inside it, the control bar's callback for the event.       *)
(***************************************************************************)
\* the durations of the media loaded (ms) and the values the slider is
\* dragged to
MediaDurations == {0, 100, 7000}
SliderValues == {0, 9, 570, 1000}

\* the notifications of the engine the control bar's specification delivers
BarNotifications == {"Playing", "Paused", "Stopped", "Ended", "Error", "Buffering"}

bar_state(n) ==
    CASE n = "Playing" -> "PLAYING" [] n = "Paused" -> "PAUSED"
      [] n = "Stopped" -> "STOPPED" [] n = "Ended" -> "ENDED"
      [] n = "Error" -> "ERROR" [] n = "Buffering" -> "BUFFERING"

\* update_timer after the control bar's callbacks for the notification:
\* _on_playing, _on_paused, _on_stopped_event (lines 404-421); the control
\* bar has no callback for the other events
timer_after(timer, n) ==
    CASE n = "Playing" -> TRUE
      [] n \in {"Paused", "Stopped"} -> FALSE
      [] OTHER -> timer

\* SeekSlider._on_released, line 155: int((value / 1000.0) * total) with
\* the duration update_position stored, 0 if it stored none (the product is
\* computed exactly here)
seek_position(bar) ==
    IF bar.total_duration_ms # None
    THEN (bar.value * bar.total_duration_ms[1]) \div 1000
    ELSE 0

\* QSlider.isEnabled: set by _on_media_loaded, line 427
slider_enabled == player_length > 0

BarFrame ==
    UNCHANGED <<audioVars, skip_interval_short, seek_obs, configVars, sched, storeVars,
                eventVars, size_obs, url_obs, keyVars, engine_events, settings_dialog,
                shellVars, video_size, released, pc, loc, op, last2, delivered>>

\* load of a stream whose duration the engine knows: LOADING, STOPPED,
\* on_media_loaded (videomanager.py, lines 373-393)
bar_load(duration) ==
    /\ state' = "STOPPED"
    /\ current_source' = Some(<<"https://example.com/stream.m3u8">>)
    /\ player_media' = current_source'
    /\ media_type' = detect_media_type(<<"https://example.com/stream.m3u8">>)
    /\ last_error' = None
    /\ player_length' = duration
    /\ player_time' = 0
    /\ UNCHANGED control_bar
    /\ BarFrame

\* an engine notification: the manager's handler (videomanager.py, lines
\* 174-220) and the control bar's callback
bar_notify(n) ==
    /\ current_source # None
    /\ state' = bar_state(n)
    /\ last_error' = IF n = "Error" THEN Some("Playback error occurred") ELSE last_error
    /\ control_bar' = [control_bar EXCEPT
                          !.timer = timer_after(@, n),
                          !.value = IF n = "Stopped" THEN 0 ELSE @]
    /\ UNCHANGED <<current_source, player_media, media_type, player_length, player_time>>
    /\ BarFrame

\* the timer's timeout: _update_time_display (lines 443-449) and
\* SeekSlider.update_position (lines 164-178)
bar_tick ==
    /\ control_bar.timer
    /\ \E current_ms \in {0, player_length} :
          /\ player_time' = current_ms
          /\ control_bar' =
                IF control_bar.user_seeking THEN control_bar
                ELSE [control_bar EXCEPT
                         !.total_duration_ms = Some(player_length),
                         !.value = IF player_length > 0
                                   THEN (current_ms * 1000) \div player_length ELSE 0]
    /\ UNCHANGED <<state, current_source, player_media, media_type, last_error,
                   player_length>>
    /\ BarFrame

UiOnly ==
    /\ UNCHANGED <<state, current_source, player_media, media_type, last_error,
                   player_length>>
    /\ BarFrame

\* SeekSlider._on_pressed (lines 147-149)
bar_pressed ==
    /\ slider_enabled /\ ~control_bar.user_seeking
    /\ control_bar' = [control_bar EXCEPT !.user_seeking = TRUE]
    /\ UNCHANGED player_time
    /\ UiOnly

\* the handle is dragged to a value
bar_dragged(value) ==
    /\ control_bar.user_seeking /\ value # control_bar.value
    /\ control_bar' = [control_bar EXCEPT !.value = value]
    /\ UNCHANGED player_time
    /\ UiOnly

\* SeekSlider._on_released (lines 151-156), ControlBar._on_seek_requested
\* (lines 395-398), VideoManager.seek, AniVishBackend.seek
bar_released ==
    /\ control_bar.user_seeking
    /\ LET position_ms == seek_position(control_bar)
       IN /\ player_time' = position_ms
          /\ control_bar' = [control_bar EXCEPT
                                !.user_seeking = FALSE,
                                !.seeks = <<position_ms>>,
                                !.released_at = Some(<<control_bar.value, player_length>>)]
    /\ UiOnly

NextControlBar ==
    \/ \E duration \in MediaDurations : bar_load(duration)
    \/ \E n \in BarNotifications : bar_notify(n)
    \/ bar_tick
    \/ bar_pressed
    \/ \E value \in SliderValues : bar_dragged(value)
    \/ bar_released

SpecControlBar == Init /\ [][NextControlBar]_vars

\* C24: the last release of the slider at value s, with media of duration
\* D > 0 loaded, requested exactly one seek, to floor(s * D / 1000) ms.
C24_SeekTargetFromCurrentDuration ==
    (control_bar.released_at # None /\ control_bar.released_at[1][2] > 0)
       => control_bar.seeks
             = <<(control_bar.released_at[1][1] * control_bar.released_at[1][2]) \div 1000>>

\* C25: the timer does not run when the state is PAUSED, STOPPED, ENDED,
\* ERROR or IDLE.
C25_TimerOnlyWhilePlaying ==
    state \in {"PAUSED", "STOPPED", "ENDED", "ERROR", "IDLE"} => ~control_bar.timer

(***************************************************************************)
(* SettingsDialog: five of its fields, the default volume, the short skip  *)
(* interval, resume playback, the subtitle language and log to file; the   *)
(* other fields are loaded and saved the same way.                         *)
(***************************************************************************)
\* QSpinBox.setValue within setRange(lo, hi)
spin(lo, hi, v) == IF v < lo THEN lo ELSE IF v > hi THEN hi ELSE v

\* _load_settings, lines 297-298, 301, 311 and 320, with the ranges of lines
\* 89 and 105
dialog_fields(tree_sections) ==
    [default_volume |-> spin(0, 100, tree_sections["playback"]["default_volume"].v),
     skip_short |-> spin(1, 60, tree_sections["playback"]["skip_interval_short"].v \div 1000),
     resume_playback |-> tree_sections["playback"]["resume_playback"].v,
     preferred_sub_lang |-> tree_sections["subtitle"]["preferred_language"].v,
     log_to_file |-> tree_sections["logging"]["log_to_file"].v]

\* the values typed into the two fields
VolumeEdits == {0, 50, 100}
SkipEdits == {1, 5, 10}

\* the longest session of the dialog explored
MaxSession == 5

DialogFrame ==
    UNCHANGED <<vmVars, audioVars, seekVars, configVars, sched, eventVars, size_obs,
                url_obs, keyVars, engine_events, control_bar, shellVars>>

\* the session of the dialog goes on
InSession ==
    /\ Len(settings_dialog.session) < MaxSession
    /\ settings_dialog.session # <<>>

\* AniVishApp._show_settings (app.py, lines 148-155): the dialog is built,
\* and its fields loaded, on the first call only
show_settings ==
    /\ ~settings_dialog.visible
    /\ Len(settings_dialog.session) < MaxSession
    /\ settings_dialog' =
          IF settings_dialog.constructed
          THEN [settings_dialog EXCEPT !.visible = TRUE, !.session = Append(@, "open")]
          ELSE [constructed |-> TRUE, visible |-> TRUE,
                default_volume |-> dialog_fields(sections).default_volume,
                skip_short |-> dialog_fields(sections).skip_short,
                resume_playback |-> dialog_fields(sections).resume_playback,
                preferred_sub_lang |-> dialog_fields(sections).preferred_sub_lang,
                log_to_file |-> dialog_fields(sections).log_to_file,
                session |-> <<"open">>, before |-> Some(sections)]
    /\ UNCHANGED storeVars
    /\ DialogFrame

\* the user changes a field
dialog_edit ==
    /\ settings_dialog.visible /\ InSession
    /\ \/ \E v \in VolumeEdits \ {settings_dialog.default_volume} :
             settings_dialog' = [settings_dialog EXCEPT !.default_volume = v,
                                                        !.session = Append(@, "edit")]
       \/ \E v \in SkipEdits \ {settings_dialog.skip_short} :
             settings_dialog' = [settings_dialog EXCEPT !.skip_short = v,
                                                        !.session = Append(@, "edit")]
    /\ UNCHANGED storeVars
    /\ DialogFrame

\* Cancel: QDialog.reject (line 65)
dialog_cancel ==
    /\ settings_dialog.visible /\ InSession
    /\ settings_dialog' = [settings_dialog EXCEPT !.visible = FALSE,
                                                  !.session = Append(@, "cancel")]
    /\ UNCHANGED storeVars
    /\ DialogFrame

\* _save_settings, lines 338-366: config.set for the fields, save_if_dirty
save_settings ==
    /\ sections' = [sections EXCEPT
                       !["playback"]["default_volume"] = PyInt(settings_dialog.default_volume),
                       !["playback"]["skip_interval_short"] =
                            PyInt(settings_dialog.skip_short * 1000),
                       !["playback"]["resume_playback"] =
                            PyBool(settings_dialog.resume_playback),
                       !["subtitle"]["preferred_language"] =
                            PyStr(settings_dialog.preferred_sub_lang),
                       !["logging"]["log_to_file"] = PyBool(settings_dialog.log_to_file)]
    /\ \E outcome \in SaveOutcomes :
          /\ config_file' =
                CASE outcome = "ok" ->
                        FileJson(config_to_dict(TreeOf(sections', recent_files,
                                                       max_recent_files)))
                  [] outcome = "open_failed" -> config_file
                  [] outcome = "write_failed" -> FileGarbage
          /\ dirty' = (outcome # "ok")
          /\ mutated' = (outcome # "ok")
          /\ store_obs' = [StoreCall("save_if_dirty", <<>>) EXCEPT
                              !.wasDirty = TRUE, !.wasMutated = TRUE, !.wrote = outcome]

SettingsFrame ==
    UNCHANGED <<vmVars, audioVars, seekVars, recent_files, max_recent_files, recent_obs,
                sched, eventVars, size_obs, url_obs, keyVars, engine_events, control_bar,
                shellVars>>

\* _on_apply, lines 383-385
dialog_apply ==
    /\ settings_dialog.visible /\ InSession
    /\ save_settings
    /\ settings_dialog' = [settings_dialog EXCEPT !.session = Append(@, "apply")]
    /\ SettingsFrame

\* _on_ok, lines 387-390
dialog_ok ==
    /\ settings_dialog.visible /\ InSession
    /\ save_settings
    /\ settings_dialog' = [settings_dialog EXCEPT !.visible = FALSE,
                                                  !.session = Append(@, "ok")]
    /\ SettingsFrame

NextSettings ==
    \/ show_settings
    \/ dialog_edit
    \/ dialog_cancel
    \/ dialog_apply
    \/ dialog_ok

SpecSettings == Init /\ [][NextSettings]_vars

\* C26: when the dialog has just been opened its fields show the values of
\* the tree; after open, edit, Cancel, open and OK or Apply the tree holds
\* the values it had before the first open.
C26_CancelledEditsNotPersisted ==
    /\ (settings_dialog.visible /\ settings_dialog.session # <<>>
           /\ settings_dialog.session[Len(settings_dialog.session)] = "open")
          => /\ settings_dialog.default_volume = dialog_fields(sections).default_volume
             /\ settings_dialog.skip_short = dialog_fields(sections).skip_short
    /\ settings_dialog.session \in {<<"open", "edit", "cancel", "open", "ok">>,
                                    <<"open", "edit", "cancel", "open", "apply">>}
          => sections = settings_dialog.before[1]

\* C35: whenever is_muted() is true the volume reported is 0.
C35_MutedMeansSilent == muted => player_volume = 0

\* muted, a set_volume(0) having been made on the muted adapter
C35_Witness ==
    /\ muted /\ player_volume = 0 /\ pre_mute_volume = 73
    /\ audio_obs.phase = 1 /\ audio_obs.v = 0 /\ audio_obs.wasMuted

(***************************************************************************)
(* load and the recent-files list                                          *)
(***************************************************************************)
\* the loads of the recent files' check: two files that exist (the second
\* loaded without validation), a stream, and a path that does not exist
RecentLoadInputs ==
    {<<(<<"movie.mp4">>), TRUE>>, <<(<<"movie.xyz">>), FALSE>>, <<(<<"movie.xyz">>), TRUE>>,
     <<(<<"https://example.com/stream.m3u8">>), TRUE>>, <<(<<"missing.mp4">>), FALSE>>,
     <<(<<"missing.mp4">>), TRUE>>}

NextLoadRecent ==
    \/ \E inp \in RecentLoadInputs : load(inp[1], inp[2])
    \/ load_invalid
    \/ load_set_media
    \/ load_failed
    \/ load_loaded
    \/ \E t \in Threads : set_state_check(t)
    \/ \E t \in Threads : set_state_old(t)
    \/ \E t \in Threads : set_state_write(t)
    \/ \E t \in Threads : set_state_emit(t)

SpecLoadRecent == InitRecent /\ [][NextLoadRecent]_vars

LoadReturned == op["main"].name = "load" /\ op["main"].result = "returned"

load_results(raw) ==
    LET source == clean_source(raw)
    IN IF url_raises(source) THEN {"ValueError"}
       ELSE IF validate_source(source) # None THEN {"InvalidSourceError"}
       ELSE {"returned", "MediaLoadError"}

\* the manager and the store after that load
load_in_handler(raw, result) ==
    LET source == clean_source(raw)
    IN /\ result \in load_results(raw)
       /\ CASE result = "ValueError" ->
                 UNCHANGED <<state, last_error, media_type, current_source, player_media,
                             recent_files, dirty, recent_obs>>
            [] result = "InvalidSourceError" ->
                 /\ state' = "ERROR"
                 /\ last_error' = validate_source(source)
                 /\ UNCHANGED <<media_type, current_source, player_media,
                                recent_files, dirty, recent_obs>>
            [] result = "MediaLoadError" ->
                 /\ state' = "ERROR"
                 /\ last_error' = Some("Failed to load media")
                 /\ media_type' = detect_media_type(source)
                 /\ UNCHANGED <<current_source, player_media, recent_files, dirty, recent_obs>>
            [] result = "returned" ->
                 /\ state' = "STOPPED"
                 /\ last_error' = None
                 /\ media_type' = detect_media_type(source)
                 /\ current_source' = Some(source)
                 /\ player_media' = Some(source)
                 /\ IF detect_media_type(source) = "LOCAL_FILE"
                    THEN /\ recent_files' = add_recent_file(recent_files, source,
                                                            max_recent_files)
                         /\ recent_obs' = [path |-> Some(source), before |-> recent_files]
                         /\ \E written \in BOOLEAN : dirty' = save_if_dirty(TRUE, written)
                    ELSE UNCHANGED <<recent_files, dirty, recent_obs>>

\* what no handler of the window touches
HandlerFrame ==
    UNCHANGED <<video_size, released, pc, loc, op, last2, delivered, audioVars, seekVars,
                max_recent_files, sched, storeVars, eventVars, size_obs, url_obs, keyVars,
                engine_events, control_bar, settings_dialog>>

(***************************************************************************)
(* RecentFilesDialog (src/ui/recent_files_dialog.py)                       *)
(***************************************************************************)
\* the lists the configuration file holds when the application starts
StartLists == {<<>>, <<(<<"a.mp4">>)>>, <<(<<"movie.mp4">>), (<<"a.mp4">>)>>}

\* the files chosen in the File > Open dialog
ChosenFiles == {<<"movie.mp4">>, <<"movie.xyz">>}

InitRecentDialog ==
    /\ InitManager /\ InitBackend /\ InitStore /\ InitRest /\ sched = "serial"
    /\ recent_files \in StartLists
    /\ max_recent_files = DefaultMaxRecent
    /\ skip_interval_short = DefaultSkipShort
    /\ dirty = FALSE
    /\ recent_obs = [path |-> None, before |-> <<>>]

\* AniVishApp._open_file (app.py, lines 111-128): load, then play
open_file ==
    /\ ~recent_files_dialog.visible
    /\ \E path \in ChosenFiles : \E result \in load_results(path) :
          load_in_handler(path, result)
    /\ UNCHANGED shellVars
    /\ HandlerFrame

\* AniVishApp._show_recent_files (app.py, lines 139-146): the dialog is built,
\* and its list filled by _load_recent_files, on the first call only
show_recent_files ==
    /\ ~recent_files_dialog.visible
    /\ recent_files_dialog' =
          IF recent_files_dialog.constructed
          THEN [recent_files_dialog EXCEPT !.visible = TRUE]
          ELSE [constructed |-> TRUE, visible |-> TRUE, items |-> recent_files]
    /\ UNCHANGED <<state, last_error, media_type, current_source, player_media,
                   recent_files, dirty, recent_obs>>
    /\ UNCHANGED <<open_url_dialog, main_window, root_logger, console>>
    /\ HandlerFrame

\* Cancel: QDialog.reject (line 57)
recent_cancel ==
    /\ recent_files_dialog.visible
    /\ recent_files_dialog' = [recent_files_dialog EXCEPT !.visible = FALSE]
    /\ UNCHANGED <<state, last_error, media_type, current_source, player_media,
                   recent_files, dirty, recent_obs>>
    /\ UNCHANGED <<open_url_dialog, main_window, root_logger, console>>
    /\ HandlerFrame

\* _on_open_clicked, _on_item_selected, _open_file (lines 106-126): load and
\* play the item, accept; a load that raises leaves the dialog open
recent_open_file ==
    /\ recent_files_dialog.visible
    /\ \E i \in 1..Len(recent_files_dialog.items) :
       \E result \in load_results(recent_files_dialog.items[i]) :
          /\ load_in_handler(recent_files_dialog.items[i], result)
          /\ recent_files_dialog' =
                [recent_files_dialog EXCEPT !.visible = (result # "returned")]
    /\ UNCHANGED <<open_url_dialog, main_window, root_logger, console>>
    /\ HandlerFrame

\* _on_clear_clicked (lines 128-131): clear_recent_files, _load_recent_files
recent_clear_clicked ==
    /\ recent_files_dialog.visible
    /\ recent_files' = <<>>
    /\ dirty' = TRUE
    /\ recent_files_dialog' = [recent_files_dialog EXCEPT !.items = <<>>]
    /\ UNCHANGED <<state, last_error, media_type, current_source, player_media, recent_obs>>
    /\ UNCHANGED <<open_url_dialog, main_window, root_logger, console>>
    /\ HandlerFrame

NextRecentDialog ==
    \/ open_file
    \/ show_recent_files
    \/ recent_cancel
    \/ recent_open_file
    \/ recent_clear_clicked

SpecRecentDialog == InitRecentDialog /\ [][NextRecentDialog]_vars

\* C31: whenever the Recent-Files dialog is shown its list is the store's
\* list of recent files, in the same order.
C31_DialogListsCurrentFiles ==
    recent_files_dialog.visible => recent_files_dialog.items = recent_files

(***************************************************************************)
(* OpenURLDialog (src/ui/open_url_dialog.py)                               *)
(***************************************************************************)
\* str.startswith of the prefixes scheme + '://', the case kept
url_startswith(url, schemes) ==
    \/ Len(url) >= 3 /\ url[1] \in schemes /\ url[2] = Colon /\ url[3] = Slashes
    \/ Name(url) = "https://example.com/stream.m3u8" /\ "https" \in schemes
    \/ Name(url) = "http://[::1" /\ "http" \in schemes

\* as url_submit, without the test of the scheme
url_submit_any_scheme(text) ==
    IF strip(text, {Blank}) = <<>> THEN "ignored" ELSE "load"

\* _on_open_clicked, lines 163-175: what the handler does with the field's
\* text before any load
url_submit(text) ==
    LET url == strip(text, {Blank})
    IN IF url = <<>> THEN "ignored"
       ELSE IF ~url_startswith(url, {"http", "https", "rtsp", "rtmp", "mms", "file"})
            THEN "rejected"
       ELSE "load"

\* what the user types into the field
UrlTexts ==
    {<<>>, <<Blank>>, <<"movie.mp4">>, <<"https://example.com/stream.m3u8">>,
     <<Blank, "https://example.com/stream.m3u8", Blank>>, <<"http://[::1">>,
     <<DQuote, "https://example.com/stream.m3u8", DQuote>>,
     <<"HTTP", Colon, Slashes, "example.com">>, <<"ftp", Colon, Slashes, "example.com">>,
     <<"http", Colon, Slashes>>, <<"file", Colon, Slashes, "/a">>,
     <<"rtsp", Colon, Slashes, "example.com", "/a">>}

UrlDialogFrame ==
    /\ UNCHANGED <<recent_files_dialog, main_window, root_logger, console>>
    /\ HandlerFrame

ManagerUntouched ==
    UNCHANGED <<state, last_error, media_type, current_source, player_media,
                recent_files, dirty, recent_obs>>

\* AniVishApp._open_url (app.py, lines 130-137) and showEvent (lines 191-196):
\* the field is cleared and its styling reset whenever the dialog is shown
open_url ==
    /\ ~open_url_dialog.visible
    /\ open_url_dialog' = [visible |-> TRUE, text |-> <<>>, error_style |-> FALSE,
                           submit |-> None]
    /\ ManagerUntouched
    /\ UrlDialogFrame

\* the user edits the field
url_input ==
    /\ open_url_dialog.visible
    /\ \E text \in UrlTexts \ {open_url_dialog.text} :
          open_url_dialog' = [open_url_dialog EXCEPT !.text = text, !.submit = None]
    /\ ManagerUntouched
    /\ UrlDialogFrame

\* Cancel: QDialog.reject
url_cancel ==
    /\ open_url_dialog.visible
    /\ open_url_dialog' = [open_url_dialog EXCEPT !.visible = FALSE, !.submit = None]
    /\ ManagerUntouched
    /\ UrlDialogFrame

\* the observer's record of a submit
Submit(load_called, result) ==
    Some([text |-> open_url_dialog.text, style_before |-> open_url_dialog.error_style,
          load_called |-> load_called, result |-> result])

\* _on_open_clicked, lines 161-189
on_open_clicked ==
    /\ open_url_dialog.visible
    /\ LET url == strip(open_url_dialog.text, {Blank})
       IN CASE url_submit(open_url_dialog.text) = "ignored" ->
                 /\ open_url_dialog' =
                       [open_url_dialog EXCEPT !.submit = Submit(FALSE, "none")]
                 /\ ManagerUntouched
            [] url_submit(open_url_dialog.text) = "rejected" ->
                 /\ open_url_dialog' =
                       [open_url_dialog EXCEPT !.error_style = TRUE,
                                               !.submit = Submit(FALSE, "none")]
                 /\ ManagerUntouched
            [] url_submit(open_url_dialog.text) = "load" ->
                 \E result \in load_results(url) :
                    /\ load_in_handler(url, result)
                    /\ open_url_dialog' =
                          IF result = "returned"
                          THEN [open_url_dialog EXCEPT !.visible = FALSE,
                                                       !.submit = Submit(TRUE, result)]
                          ELSE [open_url_dialog EXCEPT !.error_style = TRUE,
                                                       !.submit = Submit(TRUE, result)]
    /\ UrlDialogFrame

NextUrlDialog ==
    \/ open_url
    \/ url_input
    \/ url_cancel
    \/ on_open_clicked

SpecUrlDialog == Init /\ [][NextUrlDialog]_vars

Submitted == open_url_dialog.submit # None
TheSubmit == open_url_dialog.submit[1]
NotPermitted(text) ==
    ~url_startswith(strip(text, {Blank}), {"http", "https", "rtsp", "rtmp", "mms", "file"})

\* C33: a submit of a value that is empty or does not begin with a permitted
\* scheme calls no load, gives the field the error styling and leaves the
\* dialog open; so does a submit whose load raises; the dialog closes only
\* when load returned.
C33_BadSubmitStyledAndOpen ==
    Submitted =>
       /\ NotPermitted(TheSubmit.text)
             => /\ ~TheSubmit.load_called
                /\ open_url_dialog.error_style
                /\ open_url_dialog.visible
       /\ (TheSubmit.load_called /\ TheSubmit.result # "returned")
             => open_url_dialog.error_style /\ open_url_dialog.visible
       /\ ~open_url_dialog.visible
             => TheSubmit.load_called /\ TheSubmit.result = "returned"

\* C33, amended: an empty value calls no load and leaves the dialog open and
\* the styling as it was; a value that is not empty and does not begin with
\* a permitted scheme calls no load, leaves the dialog open and gives the
\* error styling; so does a submit whose load raises; the dialog closes
\* exactly when load returned.
C33_BadSubmitLeavesDialogOpen ==
    Submitted =>
       /\ strip(TheSubmit.text, {Blank}) = <<>>
             => /\ ~TheSubmit.load_called
                /\ open_url_dialog.error_style = TheSubmit.style_before
                /\ open_url_dialog.visible
       /\ (strip(TheSubmit.text, {Blank}) # <<>> /\ NotPermitted(TheSubmit.text))
             => /\ ~TheSubmit.load_called
                /\ open_url_dialog.error_style
                /\ open_url_dialog.visible
       /\ (TheSubmit.load_called /\ TheSubmit.result # "returned")
             => open_url_dialog.error_style /\ open_url_dialog.visible
       /\ ~open_url_dialog.visible
             <=> (TheSubmit.load_called /\ TheSubmit.result = "returned")

\* a file name without a scheme was submitted and refused
C33_Witness ==
    /\ Submitted
    /\ TheSubmit.text = <<"movie.mp4">>
    /\ ~TheSubmit.style_before
    /\ open_url_dialog.error_style /\ open_url_dialog.visible
    /\ current_source = None

(***************************************************************************)
(* AniVishMainWindow (src/ui/main_window.py) and the fullscreen toggle     *)
(***************************************************************************)
MIN_WIDTH == 800
MIN_HEIGHT == 600

\* the window is dragged inside a screen this much larger than the minimum
WindowSlack == 2

\* QRect: the right and bottom edges are the last column and row inside
width(r) == r.right - r.left + 1
height(r) == r.bottom - r.top + 1

\* WindowEdge: the flags of the eight zones
ResizeEdges ==
    {{"LEFT"}, {"RIGHT"}, {"TOP"}, {"BOTTOM"}, {"TOP", "LEFT"}, {"TOP", "RIGHT"},
     {"BOTTOM", "LEFT"}, {"BOTTOM", "RIGHT"}}

\* the mouse's displacements since the press
Deltas == (0 - WindowSlack - 1) .. WindowSlack

OnScreen(r) ==
    /\ r.left >= 0 /\ r.top >= 0
    /\ r.right <= MIN_WIDTH - 1 + WindowSlack
    /\ r.bottom <= MIN_HEIGHT - 1 + WindowSlack

\* _handle_resize, lines 351-383: the geometry passed to setGeometry
handle_resize(edge, geo, dx, dy) ==
    LET h == CASE "LEFT" \in edge -> [geo EXCEPT !.left = geo.left + dx]
               [] "RIGHT" \in edge -> [geo EXCEPT !.right = geo.right + dx]
               [] OTHER -> geo
        v == CASE "TOP" \in edge -> [h EXCEPT !.top = geo.top + dy]
               [] "BOTTOM" \in edge -> [h EXCEPT !.bottom = geo.bottom + dy]
               [] OTHER -> h
        w == IF width(v) < MIN_WIDTH
             THEN IF "LEFT" \in edge
                  THEN [v EXCEPT !.left = geo.right - MIN_WIDTH]
                  ELSE [v EXCEPT !.right = geo.left + MIN_WIDTH]
             ELSE v
    IN IF height(w) < MIN_HEIGHT
       THEN IF "TOP" \in edge
            THEN [w EXCEPT !.top = geo.bottom - MIN_HEIGHT]
            ELSE [w EXCEPT !.bottom = geo.top + MIN_HEIGHT]
       ELSE w

\* QWidget.setGeometry of a window with setMinimumSize(MIN_WIDTH, MIN_HEIGHT)
\* (line 80): the size is raised to the minimum, the top left corner kept
set_geometry(r) ==
    [r EXCEPT !.right = IF width(r) < MIN_WIDTH THEN r.left + MIN_WIDTH - 1 ELSE r.right,
              !.bottom = IF height(r) < MIN_HEIGHT THEN r.top + MIN_HEIGHT - 1
                         ELSE r.bottom]

\* QWidget.showFullScreen, showNormal, showMaximized on the window state
showFullScreen(ws) == (ws \ {"minimized", "maximized"}) \cup {"fullscreen"}
showNormal(ws) == ws \ {"minimized", "maximized", "fullscreen"}
showMaximized(ws) == (ws \ {"minimized", "fullscreen"}) \cup {"maximized"}

WindowFrame ==
    /\ UNCHANGED <<state, last_error, media_type, current_source, player_media,
                   recent_files, dirty, recent_obs>>
    /\ UNCHANGED <<recent_files_dialog, open_url_dialog, root_logger, console>>
    /\ HandlerFrame

NotDragging == main_window.resize_edge = {}

\* AniVishApp._toggle_fullscreen (app.py, lines 157-162): the fullscreen
\* button, the F key, a double click on the video
toggle_fullscreen ==
    /\ NotDragging
    /\ main_window' =
          [main_window EXCEPT
              !.window_state = IF "fullscreen" \in @ THEN showNormal(@)
                               ELSE showFullScreen(@),
              !.before = IF main_window.toggles = 1 THEN @
                         ELSE Some(main_window.window_state),
              !.toggles = IF @ = 1 THEN 2 ELSE 1,
              !.delta = None]
    /\ WindowFrame

\* _toggle_maximize, lines 389-398: the maximize button, a double click on
\* the title bar
toggle_maximize ==
    /\ NotDragging
    /\ main_window' =
          [main_window EXCEPT
              !.window_state = IF "maximized" \in @ THEN showNormal(@)
                               ELSE showMaximized(@),
              !.before = None, !.toggles = 0, !.delta = None]
    /\ WindowFrame

\* mousePressEvent, lines 246-253: a press on one of the eight zones of a
\* window that is not maximized starts a resize
mouse_press ==
    /\ NotDragging
    /\ main_window.window_state = {}
    /\ \E edge \in ResizeEdges :
          main_window' =
             [main_window EXCEPT !.resize_edge = edge,
                                 !.resize_start_geometry = main_window.geometry,
                                 !.before = None, !.toggles = 0, !.delta = None]
    /\ WindowFrame

\* mouseMoveEvent, lines 266-270: _handle_resize for the mouse's position
mouse_move ==
    /\ ~NotDragging
    /\ \E dx \in Deltas, dy \in Deltas :
          LET geo == set_geometry(handle_resize(main_window.resize_edge,
                                                main_window.resize_start_geometry, dx, dy))
          IN /\ OnScreen(geo)
             /\ main_window' = [main_window EXCEPT !.geometry = geo,
                                                   !.delta = Some(<<dx, dy>>)]
    /\ WindowFrame

\* mouseReleaseEvent, lines 282-286
mouse_release ==
    /\ ~NotDragging
    /\ main_window' = [main_window EXCEPT !.resize_edge = {}]
    /\ WindowFrame

NextWindow ==
    \/ toggle_fullscreen
    \/ toggle_maximize
    \/ mouse_press
    \/ mouse_move
    \/ mouse_release

SpecWindow == Init /\ [][NextWindow]_vars

\* C34: after two consecutive fullscreen toggles the window is in the state
\* it had before the first, normal or maximized.
C34_FullscreenTwiceRestores ==
    (main_window.toggles = 2 /\ "fullscreen" \notin main_window.before[1])
       => main_window.window_state = main_window.before[1]

Dragged == main_window.delta # None /\ main_window.resize_edge # {}
StartGeometry == main_window.resize_start_geometry
Max(a, b) == IF a >= b THEN a ELSE b

\* the width and the height the drag asks for
requested_width ==
    CASE "LEFT" \in main_window.resize_edge -> width(StartGeometry) - main_window.delta[1][1]
      [] "RIGHT" \in main_window.resize_edge -> width(StartGeometry) + main_window.delta[1][1]
      [] OTHER -> width(StartGeometry)
requested_height ==
    CASE "TOP" \in main_window.resize_edge -> height(StartGeometry) - main_window.delta[1][2]
      [] "BOTTOM" \in main_window.resize_edge ->
            height(StartGeometry) + main_window.delta[1][2]
      [] OTHER -> height(StartGeometry)

\* C38: after a resize drag the window is at least 800 wide and 600 high,
\* its size is max(minimum, requested) in each dimension, and the edges
\* opposite the dragged ones are where they were at the press.
C38_ResizeClampsToMinimum ==
    /\ width(main_window.geometry) >= MIN_WIDTH
    /\ height(main_window.geometry) >= MIN_HEIGHT
    /\ Dragged =>
          /\ width(main_window.geometry) = Max(MIN_WIDTH, requested_width)
          /\ height(main_window.geometry) = Max(MIN_HEIGHT, requested_height)
          /\ "LEFT" \notin main_window.resize_edge
                => main_window.geometry.left = StartGeometry.left
          /\ "RIGHT" \notin main_window.resize_edge
                => main_window.geometry.right = StartGeometry.right
          /\ "TOP" \notin main_window.resize_edge
                => main_window.geometry.top = StartGeometry.top
          /\ "BOTTOM" \notin main_window.resize_edge
                => main_window.geometry.bottom = StartGeometry.bottom

(***************************************************************************)
(* AniVishLogger (src/core/logger.py)                                      *)
(***************************************************************************)
LogLevels == <<"DEBUG", "INFO", "WARNING", "ERROR", "CRITICAL">>

\* the order of the levels of the logging module
level_no(name) == CHOOSE i \in 1..Len(LogLevels) : LogLevels[i] = name

\* the level strings passed by the callers
LevelStrings == {"DEBUG", "INFO", "WARNING", "ERROR", "CRITICAL", "info", "Error",
                 "VERBOSE", ""}

\* str.upper() of a level string
upper(level) ==
    CASE level = "info" -> "INFO"
      [] level = "Error" -> "ERROR"
      [] OTHER -> level

\* as level_of, an unrecognized string giving DEBUG
level_of_or_debug(level) ==
    IF \E i \in 1..Len(LogLevels) : LogLevels[i] = upper(level) THEN upper(level)
    ELSE "DEBUG"

\* configure, lines 105-112, and set_level, lines 147-154:
\* level_map.get(level.upper(), logging.INFO)
level_of(level) ==
    IF \E i \in 1..Len(LogLevels) : LogLevels[i] = upper(level) THEN upper(level)
    ELSE "INFO"

LoggerFrame ==
    /\ UNCHANGED <<state, last_error, media_type, current_source, player_media,
                   recent_files, dirty, recent_obs>>
    /\ UNCHANGED <<recent_files_dialog, open_url_dialog, main_window, console>>
    /\ HandlerFrame

\* configure, lines 89-129; the file handler is created at DEBUG
\* (_setup_file_handler, lines 60-79), and creating it may raise after the
\* old one was removed
configure ==
    \E level \in LevelStrings, log_to_file \in BOOLEAN, console_output \in BOOLEAN,
       created \in BOOLEAN :
       /\ root_logger' =
             [log_level |-> level_of(level),
              console_handler |-> IF console_output THEN Some(level_of(level)) ELSE None,
              file_handler |-> IF log_to_file
                               THEN IF created THEN Some("DEBUG") ELSE None
                               ELSE None,
              call |-> "configure", level |-> Some(level), record |-> None,
              emitted |-> {}]
       /\ LoggerFrame

\* set_level, lines 145-156
set_level ==
    \E level \in LevelStrings :
       /\ root_logger' =
             [root_logger EXCEPT
                 !.log_level = level_of(level),
                 !.console_handler = IF @ # None THEN Some(level_of(level)) ELSE @,
                 !.call = "set_level", !.level = Some(level), !.record = None,
                 !.emitted = {}]
       /\ LoggerFrame

\* the handlers of the "anivish" logger (level DEBUG, lines 39-41) that emit
\* a record of this level
handlers_emitting(record) ==
    {h \in {"console", "file"} :
        LET handler == IF h = "console" THEN root_logger.console_handler
                       ELSE root_logger.file_handler
        IN handler # None /\ level_no(record) >= level_no(handler[1])}

\* a component logs a record
log_record ==
    \E record \in {LogLevels[i] : i \in 1..Len(LogLevels)} :
       /\ root_logger' = [root_logger EXCEPT !.record = Some(record),
                                             !.emitted = handlers_emitting(record)]
       /\ LoggerFrame

NextLogger ==
    \/ configure
    \/ set_level
    \/ log_record

SpecLogger == Init /\ [][NextLogger]_vars

Attached ==
    {h \in {"console", "file"} :
        IF h = "console" THEN root_logger.console_handler # None
        ELSE root_logger.file_handler # None}

LevelSet == root_logger.level # None
Logged == root_logger.record # None

\* the level the claim gives to the string passed last
ClaimedLevel ==
    IF \E i \in 1..Len(LogLevels) : LogLevels[i] = upper(root_logger.level[1])
    THEN upper(root_logger.level[1]) ELSE "INFO"

\* C37: after configure or set_level with level L a record below L is
\* emitted to no attached channel and a record at or above L to every
\* attached channel; an unrecognized level string counts as INFO.
C37_LevelFiltersEveryChannel ==
    (LevelSet /\ Logged) =>
       IF level_no(root_logger.record[1]) < level_no(ClaimedLevel)
       THEN root_logger.emitted = {}
       ELSE root_logger.emitted = Attached

\* C37, amended: after configure or set_level with level L the console
\* channel, when attached, gets a record exactly when it is at or above L,
\* and the file channel, when attached, gets every record; an unrecognized
\* level string counts as INFO.
C37_LevelFiltersConsole ==
    /\ LevelSet => root_logger.log_level = ClaimedLevel
    /\ (LevelSet /\ Logged) =>
          /\ "console" \in root_logger.emitted
                <=> /\ "console" \in Attached
                    /\ level_no(root_logger.record[1]) >= level_no(ClaimedLevel)
          /\ "file" \in root_logger.emitted <=> "file" \in Attached

\* an unrecognized level was set, and a DEBUG record reached the file only
C37_Witness ==
    /\ LevelSet /\ Logged
    /\ root_logger.level[1] = "VERBOSE"
    /\ root_logger.record[1] = "DEBUG"
    /\ Attached = {"console", "file"}
    /\ root_logger.emitted = {"file"}

(***************************************************************************)
(* The console player (src/main.py)                                        *)
(***************************************************************************)
\* the lines typed at the prompt, in tokens
ConsoleLines ==
    {<<"o", Blank, "movie.mp4">>, <<Blank, "o", Blank, Blank, "movie.mp4", Blank>>,
     <<"o", Blank, DQuote, "movie.mp4", DQuote>>, <<"o", Blank, SQuote, "movie.mp4", SQuote>>,
     <<"o", Blank, "movie.xyz">>, <<"o", Blank, "missing.mp4">>, <<"o", Blank, "http://[::1">>,
     <<"o", Blank, "https://example.com/stream.m3u8">>,
     <<"o", Blank, "http", Colon, Slashes, "example.com", "/a", ".m3u8">>,
     <<"o", Blank, "http", Colon, Slashes, "example.com", "/a", ".M3U8">>,
     <<"o", Blank, "HTTP", Colon, Slashes, "EXAMPLE.com", "/a">>,
     <<"o">>, <<"q">>}

\* main, line 446: input(">> ").strip().lower()
read_command(line) ==
    LET stripped == strip(line, {Blank})
    IN [i \in 1..Len(stripped) |-> lower(stripped[i])]

\* handle_command, lines 156-158: command.split(maxsplit=1)
command_cmd(command) == IF command = <<>> THEN "" ELSE command[1]
command_arg(command) == IF command = <<>> THEN <<>> ELSE lstrip(Tail(command), {Blank})

\* handle_command, line 348: arg.strip().strip('"').strip("'")
open_path(arg) == strip(strip(strip(arg, {Blank}), {DQuote}), {SQuote})

ConsoleFrame ==
    /\ UNCHANGED <<recent_files_dialog, open_url_dialog, main_window, root_logger>>
    /\ HandlerFrame

\* main, lines 444-455, and handle_command, lines 347-356: one turn of the
\* loop; 'o <path>' stops, loads the path and plays, and prints the error
\* of a load that raises
console_command ==
    /\ console.running
    /\ \E line \in ConsoleLines :
          LET command == read_command(line)
              path == open_path(command_arg(command))
          IN CASE command_cmd(command) = "o" /\ command_arg(command) # <<>> ->
                    \E result \in load_results(path) :
                       /\ load_in_handler(path, result)
                       /\ console' = [running |-> TRUE, typed |-> line,
                                      loaded |-> Some(path), result |-> result,
                                      printed |-> IF result = "returned" THEN "Playing..."
                                                  ELSE "Error"]
               [] command_cmd(command) = "q" ->
                    /\ console' = [running |-> FALSE, typed |-> line, loaded |-> None,
                                   result |-> "none", printed |-> "none"]
                    /\ ManagerUntouched
               [] OTHER ->
                    /\ console' = [running |-> TRUE, typed |-> line, loaded |-> None,
                                   result |-> "none", printed |-> "Unknown command"]
                    /\ ManagerUntouched
    /\ ConsoleFrame

NextConsole == console_command

SpecConsole == Init /\ [][NextConsole]_vars

\* the argument of the line as it was typed: what follows the command word
TypedArg == lstrip(Tail(strip(console.typed, {Blank})), {Blank})
OpenTyped ==
    /\ console.typed # <<>>
    /\ strip(console.typed, {Blank})[1] = "o"
    /\ TypedArg # <<>>

\* C39: 'o <path>' loads the source as typed, only trimmed of surrounding
\* whitespace and quotes, and plays it; when load fails the error is printed
\* and the loop goes on.
C39_OpenLoadsTypedSource ==
    OpenTyped =>
       /\ console.loaded = Some(open_path(TypedArg))
       /\ console.result = "returned"
             => /\ current_source = Some(clean_source(open_path(TypedArg)))
                /\ console.printed = "Playing..."
       /\ console.result # "returned" => console.printed = "Error"
       /\ console.running

(***************************************************************************)
(* SettingsDialog on the trees a configuration file can give               *)
(***************************************************************************)
\* the default volumes and the short skip intervals (ms) held by the tree
TreeVolumes == {100, 40, 150}
TreeSkips == {10000, 10500, 500, 90000}

InitSettingsTree ==
    /\ InitManager /\ InitBackend /\ InitConfig /\ InitRest /\ sched = "serial"
    /\ mutated = FALSE
    /\ \E v \in TreeVolumes, skip \in TreeSkips :
          /\ sections = [DefaultSections EXCEPT
                            !["playback"]["default_volume"] = PyInt(v),
                            !["playback"]["skip_interval_short"] = PyInt(skip)]
          /\ config_file = FileJson(config_to_dict(TreeOf(sections, <<>>, DefaultMaxRecent)))
          /\ store_obs = [call |-> "none", args |-> <<>>, raised |-> FALSE, value |-> PyNone,
                          tree |-> TreeOf(sections, <<>>, DefaultMaxRecent),
                          wasDirty |-> FALSE, wasMutated |-> FALSE, wrote |-> "none",
                          saved |-> Some(TreeOf(sections, <<>>, DefaultMaxRecent))]

\* _on_reset, lines 392-417: the fields are set, nothing is saved
dialog_reset ==
    /\ settings_dialog.visible /\ InSession
    /\ settings_dialog' =
          [settings_dialog EXCEPT !.resume_playback = FALSE,
                                  !.default_volume = spin(0, 100, 100),
                                  !.skip_short = spin(1, 60, 10),
                                  !.preferred_sub_lang = "eng",
                                  !.log_to_file = TRUE,
                                  !.session = Append(@, "reset")]
    /\ UNCHANGED storeVars
    /\ DialogFrame

NextSettingsTree ==
    \/ show_settings
    \/ dialog_edit
    \/ dialog_cancel
    \/ dialog_reset
    \/ dialog_apply
    \/ dialog_ok

SpecSettingsTree == InitSettingsTree /\ [][NextSettingsTree]_vars

\* C36: after the dialog is opened and OK or Apply pressed with nothing
\* edited, the tree holds the values it held before.
C36_UneditedSavePreservesTree ==
    settings_dialog.session \in {<<"open", "ok">>, <<"open", "apply">>}
       => sections = settings_dialog.before[1]

\* the fields the dialog persists, as the tree holds them
Persisted(tree_sections) ==
    [default_volume |-> tree_sections["playback"]["default_volume"],
     skip_interval_short |-> tree_sections["playback"]["skip_interval_short"],
     resume_playback |-> tree_sections["playback"]["resume_playback"],
     preferred_language |-> tree_sections["subtitle"]["preferred_language"],
     log_to_file |-> tree_sections["logging"]["log_to_file"]]

\* C40: after 'Reset to Defaults' followed by Apply every field the dialog
\* persists has the tree's default.
C40_ResetApplyGivesDefaults ==
    (/\ Len(settings_dialog.session) >= 2
     /\ SubSeq(settings_dialog.session, Len(settings_dialog.session) - 1,
               Len(settings_dialog.session)) = <<"reset", "apply">>)
       => Persisted(sections) = Persisted(DefaultSections)

====
